---- MODULE Spec2Model ----
(***************************************************************************)
(* A model of setup-mcp.js: the project fingerprinter (analyzeProject),    *)
(* the rule renderer (generateRules and the create*Rule functions), the    *)
(* memory seed (createMemoryFile), the workspace settings merge            *)
(* (createCursorWorkspaceSettings) and the ten-step driver (setupMCP).     *)
(*                                                                         *)
(* The working directory is a map from paths to nodes; package.json, the   *)
(* rule files, the memory file and settings.json are kept as parsed        *)
(* documents next to a flag saying whether their text parses.              *)
(***************************************************************************)
EXTENDS Integers, Sequences, FiniteSets, TLC

VARIABLES
    pkg,          \* package.json in the working directory
    nodes,        \* the working directory tree: path -> node
    cwdDepth,     \* number of path components of process.cwd()
    gitLevels,    \* the ancestor levels (0 = filesystem root) holding .git
    dirs,         \* the directories among .mcp, .mcp/backups, .cursor, .cursor/rules that exist
    rules,        \* the files of .cursor/rules: name -> document
    memory,       \* .mcp/ai_memory.json
    settings,     \* .cursor/settings.json
    utils,        \* the utility scripts in .mcp
    cursorConfig, \* the Cursor configuration file in the user's home
    now,          \* the wall clock
    startedAt,    \* the clock when the current run started
    runs,         \* the number of runs started
    pc,           \* position of the run
    outcome,      \* how the last call of analyzeProject ended
    projectInfo,  \* the projectInfo object of analyzeProject
    manifestReads, \* how many times analyzeProject read package.json
    context,      \* the projectContext of the run
    steps,        \* the steps of setupMCP entered in the current run
    written,      \* the rule files written in the current run, in order
    caught,       \* how many times the catch block of setupMCP ran in the current run
    errorMsg,     \* the message of the error the catch block logged
    rlClosed      \* rl.close() was called in the current run

fsVars == <<pkg, nodes, cwdDepth, gitLevels>>
outVars == <<dirs, rules, memory, settings, utils, cursorConfig>>
clockVars == <<now, startedAt, runs>>
callVars == <<outcome, projectInfo, manifestReads>>
runVars == <<context, steps, written, caught, errorMsg, rlClosed>>
vars == <<fsVars, outVars, clockVars, pc, callVars, runVars>>

----------------------------------------------------------------------------
(* Bounds of the model. *)

\* names a package.json declares
MaxDeps == 2
\* top-level entries of the working directory
MaxEntries == 2
\* runs of setup-mcp.js on one project
MaxRuns == 2
\* entries of the memory document
MaxMemory == 3
\* path components of the deepest working directory
MaxDepth == 3
\* dependencies of a manifest of the framework specification
MaxFrameworkDeps == 3
\* dependencies of a manifest of the rendering specification
MaxRenderDeps == 3
\* groups of component directories in a source tree
MaxTargets == 3

----------------------------------------------------------------------------
(* JavaScript values. *)

\* null, as the pattern slots and repoRoot hold it
Null == "<null>"

\* the value of a property that was never assigned
Undefined == "<undefined>"

\* if (x): null, undefined and the empty string are falsy, every label is truthy
IsTruthy(x) == x \notin {Null, Undefined, ""}

\* deps.name / deps['name'] in a condition: the entry's value, undefined
\* when the key is absent, tested for truthiness
Truthy(deps, p) == IF p \in DOMAIN deps THEN IsTruthy(deps[p]) ELSE FALSE

\* { ...a, ...b }: the keys of both, b's value where both have the key
Spread(a, b) ==
    [p \in (DOMAIN a) \cup (DOMAIN b) |-> IF p \in DOMAIN b THEN b[p] ELSE a[p]]

\* if (c) list.push(x)
PushIf(c, list, x) == IF c THEN Append(list, x) ELSE list

\* the empty object {}
EmptyObj == [p \in {} |-> ""]

----------------------------------------------------------------------------
(* The working directory. *)

\* path.extname(f) === '.py' for the file names of the model
PyNames == {"manage.py", "app.py", "conftest.py", "main.py"}

\* the substrings the Python scans look for
FlaskNeedle == "Flask(__name__"
FastAPINeedle == "FastAPI("
UnittestNeedle == "unittest.TestCase"

\* process.cwd() as a path of the tree
Cwd == << >>

\* fs.existsSync(name), name relative to the working directory
existsSync(fsn, name) == <<name>> \in DOMAIN fsn

\* fs.statSync(name).isFile()
isFile(fsn, name) == fsn[<<name>>].kind = "file"

\* fs.statSync(name).isDirectory()
isDirectory(fsn, name) == fsn[<<name>>].kind = "dir"

\* the names fs.readdirSync('.') returns
TopLevel(fsn) == {p[1] : p \in {q \in DOMAIN fsn : Len(q) = 1}}

\* fs.readdirSync('.') throws when the directory cannot be listed
CanList(fsn) == fsn[Cwd].readable

\* the orders in which fs.readdirSync('.') may return the names: the order
\* is the file system's, not sorted
Listings(fsn) ==
    LET names == TopLevel(fsn)
        n == Cardinality(names)
    IN {s \in [1..n -> names] : \A i, j \in 1..n : i # j => s[i] # s[j]}

\* the callback of the .some(...) scans over fs.readdirSync('.'), from the
\* i-th name on: "true", "false", or "throw" when fs.readFileSync fails
RECURSIVE SomePy(_, _, _, _)
SomePy(fsn, listing, i, needle) ==
    IF i > Len(listing) THEN "false"
    ELSE LET f == listing[i] IN
         IF existsSync(fsn, f) /\ isFile(fsn, f) /\ f \in PyNames
         THEN IF ~fsn[<<f>>].readable THEN "throw"
              ELSE IF needle \in fsn[<<f>>].text THEN "true"
              ELSE SomePy(fsn, listing, i + 1, needle)
         ELSE SomePy(fsn, listing, i + 1, needle)

\* fs.readdirSync('.').some(f => ... fs.readFileSync(f, 'utf8').includes(needle))
ScanPy(fsn, listing, needle) ==
    IF ~CanList(fsn) THEN "throw" ELSE SomePy(fsn, listing, 1, needle)

\* a || scan: the scan is not evaluated when a holds
OrScan(a, scan) == IF a THEN "true" ELSE scan

\* the entries of a directory of the tree
Children(fsn, base) ==
    {p \in DOMAIN fsn : Len(p) = Len(base) + 1 /\ SubSeq(p, 1, Len(base)) = base}

\* entry.startsWith('.') for the directory names of the model
HiddenNames == {".git", ".cache"}

\* findDir(baseDir, targetDir, maxDepth)
RECURSIVE findDir(_, _, _, _)
findDir(fsn, base, target, maxDepth) ==
    IF maxDepth <= 0 THEN FALSE
    ELSE IF ~fsn[base].readable THEN FALSE
    ELSE \/ /\ Append(base, target) \in DOMAIN fsn
            /\ fsn[Append(base, target)].kind = "dir"
         \/ \E p \in Children(fsn, base) :
               /\ fsn[p].kind = "dir"
               /\ p[Len(p)] \notin HiddenNames
               /\ p[Len(p)] # "node_modules"
               /\ findDir(fsn, p, target, maxDepth - 1)

\* the default of findDir's maxDepth parameter
DefaultMaxDepth == 3

----------------------------------------------------------------------------
(* analyzeProject. *)

\* path.basename(process.cwd())
DirName == "workdir"

\* repoRoot: null; a repository root is the level of its directory
NoRoot == 0 - 1

\* the projectInfo literal analyzeProject starts from; the has*Dir
\* properties are FALSE while unassigned
InitialInfo ==
    [name |-> DirName, type |-> "unknown", frameworks |-> << >>,
     auth |-> Null, dataManagement |-> Null, ui |-> Null,
     testing |-> << >>, config |-> << >>, isMonorepo |-> FALSE,
     repoRoot |-> NoRoot,
     hasSourceDir |-> FALSE, hasTestsDir |-> FALSE, hasDocsDir |-> FALSE,
     hasScriptsDir |-> FALSE, componentPattern |-> Undefined]

\* the search for .git: the working directory first, then the loop from the
\* working directory upwards while currentDir is not the root
RECURSIVE GitWalk(_, _)
GitWalk(levels, cur) ==
    IF cur = 0 THEN NoRoot
    ELSE IF cur \in levels THEN cur
    ELSE GitWalk(levels, cur - 1)

RepoRoot(levels, depth) ==
    IF depth \in levels THEN depth ELSE GitWalk(levels, depth)

\* the configFiles list
ConfigFiles ==
    <<".eslintrc.js", ".eslintrc.json", ".eslintrc",
      "tsconfig.json", "babel.config.js", "jest.config.js",
      ".prettierrc", ".prettierrc.js", ".stylelintrc",
      "vite.config.js", "vite.config.ts", "webpack.config.js",
      "next.config.js", "nuxt.config.js", "angular.json",
      ".env", ".env.local", ".env.development">>

ConfigScan(fsn) == SelectSeq(ConfigFiles, LAMBDA f : existsSync(fsn, f))

\* the testing frameworks of the dependency table
TestingOf(deps) ==
    LET t1 == PushIf(Truthy(deps, "jest"), << >>, "Jest")
        t2 == PushIf(Truthy(deps, "mocha"), t1, "Mocha")
        t3 == PushIf(Truthy(deps, "chai"), t2, "Chai")
        t4 == PushIf(Truthy(deps, "cypress"), t3, "Cypress")
        t5 == PushIf(Truthy(deps, "@testing-library/react"), t4, "React Testing Library")
    IN PushIf(Truthy(deps, "@testing-library/vue"), t5, "Vue Testing Library")

\* the if / else-if chain that sets type and pushes the framework labels
TypeChain(deps) ==
    IF Truthy(deps, "react") THEN
        IF Truthy(deps, "next")
        THEN [type |-> "Next.js", frameworks |-> <<"React", "Next.js">>]
        ELSE IF Truthy(deps, "react-native")
        THEN [type |-> "React Native", frameworks |-> <<"React", "React Native">>]
        ELSE [type |-> "React", frameworks |-> <<"React">>]
    ELSE IF Truthy(deps, "vue") THEN
        [type |-> "Vue",
         frameworks |-> PushIf(Truthy(deps, "nuxt"), <<"Vue">>, "Nuxt.js")]
    ELSE IF Truthy(deps, "angular") THEN
        [type |-> "Angular", frameworks |-> <<"Angular">>]
    ELSE IF Truthy(deps, "svelte") THEN
        [type |-> "Svelte", frameworks |-> <<"Svelte">>]
    ELSE IF \/ Truthy(deps, "express") \/ Truthy(deps, "koa")
            \/ Truthy(deps, "hapi") \/ Truthy(deps, "fastify") THEN
        [type |-> "Node.js",
         frameworks |->
            PushIf(Truthy(deps, "fastify"),
              PushIf(Truthy(deps, "hapi"),
                PushIf(Truthy(deps, "koa"),
                  PushIf(Truthy(deps, "express"), << >>, "Express"),
                  "Koa"),
                "Hapi"),
              "Fastify")]
    ELSE [type |-> "unknown", frameworks |-> << >>]

\* StateManagement with one push for each of the two Redux packages
StateManagement_PerPackage(deps, fw) ==
    LET f0 == PushIf(Truthy(deps, "redux"), fw, "Redux")
        f1 == PushIf(Truthy(deps, "@reduxjs/toolkit"), f0, "Redux")
        f2 == PushIf(Truthy(deps, "mobx"), f1, "MobX")
        f3 == PushIf(Truthy(deps, "zustand"), f2, "Zustand")
        f4 == PushIf(Truthy(deps, "jotai"), f3, "Jotai")
    IN PushIf(Truthy(deps, "recoil"), f4, "Recoil")

\* the state management labels, pushed after the type chain's
StateManagement(deps, fw) ==
    LET f1 == PushIf(Truthy(deps, "redux") \/ Truthy(deps, "@reduxjs/toolkit"), fw, "Redux")
        f2 == PushIf(Truthy(deps, "mobx"), f1, "MobX")
        f3 == PushIf(Truthy(deps, "zustand"), f2, "Zustand")
        f4 == PushIf(Truthy(deps, "jotai"), f3, "Jotai")
    IN PushIf(Truthy(deps, "recoil"), f4, "Recoil")

\* deps.firebase || deps['firebase-admin']
HasFirebase(deps) == Truthy(deps, "firebase") \/ Truthy(deps, "firebase-admin")

\* the auth cascade
AuthOf(deps) ==
    IF HasFirebase(deps) THEN "Firebase Authentication"
    ELSE IF Truthy(deps, "auth0") THEN "Auth0"
    ELSE IF Truthy(deps, "@clerk/nextjs") \/ Truthy(deps, "@clerk/clerk-react") THEN "Clerk"
    ELSE IF Truthy(deps, "next-auth") THEN "NextAuth.js"
    ELSE IF Truthy(deps, "passport") THEN "Passport.js"
    ELSE IF Truthy(deps, "keycloak") THEN "Keycloak"
    ELSE Null

\* the data management cascade
DataManagementOf(deps) ==
    IF HasFirebase(deps) THEN "Firebase Firestore"
    ELSE IF Truthy(deps, "prisma") THEN "Prisma"
    ELSE IF Truthy(deps, "mongoose") THEN "MongoDB (Mongoose)"
    ELSE IF Truthy(deps, "sequelize") THEN "SQL (Sequelize)"
    ELSE IF Truthy(deps, "typeorm") THEN "TypeORM"
    ELSE IF Truthy(deps, "@prisma/client") THEN "Prisma"
    ELSE IF Truthy(deps, "@tanstack/react-query") THEN "React Query"
    ELSE IF Truthy(deps, "apollo") \/ Truthy(deps, "@apollo/client") THEN "Apollo GraphQL"
    ELSE IF Truthy(deps, "swr") THEN "SWR"
    ELSE Null

\* the UI cascade
UiOf(deps) ==
    IF Truthy(deps, "tailwindcss") THEN "Tailwind CSS"
    ELSE IF Truthy(deps, "@mui/material") \/ Truthy(deps, "@material-ui/core") THEN "Material UI"
    ELSE IF Truthy(deps, "@chakra-ui/react") THEN "Chakra UI"
    ELSE IF Truthy(deps, "bootstrap") \/ Truthy(deps, "react-bootstrap") THEN "Bootstrap"
    ELSE IF Truthy(deps, "styled-components") THEN "Styled Components"
    ELSE IF Truthy(deps, "@emotion/react") THEN "Emotion"
    ELSE IF Truthy(deps, "@radix-ui/react-dialog") THEN "Radix UI"
    ELSE IF Truthy(deps, "@mantine/core") THEN "Mantine UI"
    ELSE IF Truthy(deps, "@headlessui/react") THEN "Headless UI"
    ELSE Null

\* the package.json branch, once the manifest has parsed
ManifestBranch(info, p) ==
    LET deps == Spread(p.dependencies, p.devDependencies)
        chain == TypeChain(deps)
        fw == StateManagement(deps, chain.frameworks)
    IN [info EXCEPT
          !.name = IF IsTruthy(p.name) THEN p.name ELSE info.name,
          !.testing = TestingOf(deps),
          !.type = chain.type,
          !.frameworks = PushIf(HasFirebase(deps), fw, "Firebase"),
          !.auth = AuthOf(deps),
          !.dataManagement = DataManagementOf(deps),
          !.ui = UiOf(deps)]

\* the Python branch: type, then the Django / Flask / FastAPI chain, then the
\* two testing checks; a scan that throws ends the call with what was
\* assigned so far
PythonBranch(info, fsn, listing) ==
    LET typed == [info EXCEPT !.type = "Python"]
        django == existsSync(fsn, "manage.py") \/ existsSync(fsn, "django_project")
        flask == IF django THEN "false"
                 ELSE OrScan(existsSync(fsn, "app.py"), ScanPy(fsn, listing, FlaskNeedle))
        fastapi == IF django \/ flask # "false" THEN "false"
                   ELSE OrScan(existsSync(fsn, "fastapi"), ScanPy(fsn, listing, FastAPINeedle))
        withFw == [typed EXCEPT !.frameworks =
                     IF django THEN <<"Django">>
                     ELSE IF flask = "true" THEN <<"Flask">>
                     ELSE IF fastapi = "true" THEN <<"FastAPI">>
                     ELSE << >>]
        withPytest == [withFw EXCEPT !.testing =
                         PushIf(existsSync(fsn, "pytest.ini") \/ existsSync(fsn, "conftest.py"),
                                << >>, "pytest")]
        unittest == OrScan(existsSync(fsn, "unittest"), ScanPy(fsn, listing, UnittestNeedle))
    IN IF flask = "throw" \/ fastapi = "throw" THEN [threw |-> TRUE, info |-> typed]
       ELSE IF unittest = "throw" THEN [threw |-> TRUE, info |-> withPytest]
       ELSE [threw |-> FALSE,
             info |-> [withPytest EXCEPT !.testing =
                         PushIf(unittest = "true", withPytest.testing, "unittest")]]

\* ComponentPattern with the features test ahead of the atomic one
ComponentPattern_FeatureFirst(fsn) ==
    IF findDir(fsn, Cwd, "features", DefaultMaxDepth) THEN "Feature-based"
    ELSE IF \A d \in {"atoms", "molecules", "organisms", "templates"} :
                findDir(fsn, Cwd, d, DefaultMaxDepth)
    THEN "Atomic Design"
    ELSE IF findDir(fsn, Cwd, "pages", DefaultMaxDepth) THEN "Page-based"
    ELSE Undefined

\* the component pattern of a React / Next.js project
ComponentPattern(fsn) ==
    IF \A d \in {"atoms", "molecules", "organisms", "templates"} :
           findDir(fsn, Cwd, d, DefaultMaxDepth)
    THEN "Atomic Design"
    ELSE IF findDir(fsn, Cwd, "features", DefaultMaxDepth) THEN "Feature-based"
    ELSE IF findDir(fsn, Cwd, "pages", DefaultMaxDepth) THEN "Page-based"
    ELSE Undefined

\* the try block over the top-level directories; an unlistable working
\* directory leaves the block through its catch with nothing assigned
StructureScan(info, fsn) ==
    IF ~CanList(fsn) THEN info
    ELSE LET topLevelDirs == {n \in TopLevel(fsn) : isDirectory(fsn, n)} IN
         [info EXCEPT
            !.hasSourceDir = "src" \in topLevelDirs,
            !.hasTestsDir = "tests" \in topLevelDirs \/ "__tests__" \in topLevelDirs,
            !.hasDocsDir = "docs" \in topLevelDirs,
            !.hasScriptsDir = "scripts" \in topLevelDirs,
            !.componentPattern =
                IF info.type \in {"React", "Next.js"}
                THEN ComponentPattern(fsn) ELSE Undefined]

\* HasPythonMarker with app.py taken for a marker file
HasPythonMarker_AppPy(fsn) ==
    \/ existsSync(fsn, "requirements.txt")
    \/ existsSync(fsn, "Pipfile")
    \/ existsSync(fsn, "pyproject.toml")
    \/ existsSync(fsn, "app.py")

\* fs.existsSync('requirements.txt') || ... 'Pipfile' || ... 'pyproject.toml'
HasPythonMarker(fsn) ==
    \/ existsSync(fsn, "requirements.txt")
    \/ existsSync(fsn, "Pipfile")
    \/ existsSync(fsn, "pyproject.toml")

\* MonorepoMarker without the pnpm-workspace.yaml test
MonorepoMarker_LernaOnly(fsn) == existsSync(fsn, "lerna.json")

\* the monorepo condition: the two marker files short-circuit the read of
\* package.json
MonorepoMarker(fsn) ==
    existsSync(fsn, "lerna.json") \/ existsSync(fsn, "pnpm-workspace.yaml")

\* JSON.parse(fs.readFileSync('package.json', 'utf8')) throws
ParseThrows(p) == p.st = "invalid"

\* ManifestBranchTaken with the Python markers tested first
ManifestBranchTaken_PythonFirst(p, fsn) == p.st # "absent" /\ ~HasPythonMarker(fsn)

\* if (fs.existsSync('package.json')) { ... } else if (<Python marker>) { ... }:
\* the manifest is tested first and the marker files only in its else
ManifestBranchTaken(p, fsn) == p.st # "absent"

\* analyzeProject: [threw, info, reads], info being projectInfo when the
\* call returns or throws, reads the number of reads of package.json
analyzeProject(p, fsn, levels, depth, listing) ==
    LET rooted == [InitialInfo EXCEPT !.repoRoot = RepoRoot(levels, depth)]
        marker == MonorepoMarker(fsn)
        monoReads == IF marker \/ p.st = "absent" THEN 0 ELSE 1
        mono == [rooted EXCEPT !.isMonorepo =
                   marker \/ (p.st = "valid" /\ IsTruthy(p.workspaces))]
        configured == [mono EXCEPT !.config = ConfigScan(fsn)]
    IN IF ~marker /\ p.st # "absent" /\ ParseThrows(p)
       THEN [threw |-> TRUE, info |-> rooted, reads |-> monoReads]
       ELSE IF ManifestBranchTaken(p, fsn) THEN
            IF ParseThrows(p)
            THEN [threw |-> TRUE, info |-> configured, reads |-> monoReads + 1]
            ELSE [threw |-> FALSE,
                  info |-> StructureScan(ManifestBranch(configured, p), fsn),
                  reads |-> monoReads + 1]
       ELSE IF HasPythonMarker(fsn) THEN
            LET py == PythonBranch(configured, fsn, listing) IN
            IF py.threw THEN [threw |-> TRUE, info |-> py.info, reads |-> monoReads]
            ELSE [threw |-> FALSE, info |-> StructureScan(py.info, fsn),
                  reads |-> monoReads]
       ELSE [threw |-> FALSE, info |-> StructureScan(configured, fsn),
             reads |-> monoReads]

----------------------------------------------------------------------------
(* The rule documents.  A document is its front matter (globs: a list of   *)
(* patterns, each a path pattern with the extensions of its brace list)    *)
(* and what its text interpolates from the profile.                        *)

\* one pattern of a glob string
Pat(path, exts) == [path |-> path, exts |-> exts]

\* a document with nothing in it
BlankDoc ==
    [kind |-> "", globs |-> << >>, name |-> "", type |-> "",
     frameworks |-> << >>, auth |-> "", dataManagement |-> "", ui |-> "",
     fragments |-> << >>, refs |-> << >>]

\* the globs of project-rules.mdc
ProjectGlobs(type) ==
    IF type = "Next.js" \/ type = "React" THEN <<Pat("**/*", <<"ts", "tsx", "js", "jsx">>)>>
    ELSE IF type = "Vue" THEN <<Pat("**/*", <<"vue", "js", "ts">>)>>
    ELSE IF type = "Angular" THEN <<Pat("**/*", <<"ts", "html", "scss">>)>>
    ELSE IF type = "Python" THEN <<Pat("**/*", <<"py">>)>>
    ELSE <<Pat("**/*", << >>)>>

\* the globs of auth-rules.mdc
AuthGlobs(type) ==
    IF type = "Next.js" \/ type = "React"
    THEN <<Pat("**/auth/**/*", <<"ts", "tsx", "js", "jsx">>)>>
    ELSE IF type = "Vue" THEN <<Pat("**/auth/**/*", <<"vue", "js", "ts">>)>>
    ELSE IF type = "Angular" THEN <<Pat("**/auth/**/*", <<"ts", "html">>)>>
    ELSE IF type = "Python" THEN <<Pat("**/auth/**/*", <<"py">>)>>
    ELSE <<Pat("**/auth/**/*", << >>)>>

\* the globs of data-management-rules.mdc
DataGlobs(type) ==
    IF type = "Next.js" \/ type = "React"
    THEN <<Pat("**/lib/**/*", <<"ts", "js">>),
           Pat("**/hooks/**/*", <<"ts", "tsx", "js", "jsx">>),
           Pat("**/data/**/*", <<"ts", "js">>)>>
    ELSE IF type = "Vue"
    THEN <<Pat("**/store/**/*", <<"js", "ts">>), Pat("**/services/**/*", <<"js", "ts">>)>>
    ELSE IF type = "Angular"
    THEN <<Pat("**/services/**/*", <<"ts">>), Pat("**/store/**/*", <<"ts">>)>>
    ELSE IF type = "Python"
    THEN <<Pat("**/models/**/*", <<"py">>), Pat("**/db/**/*", <<"py">>)>>
    ELSE <<Pat("**/data/**/*", << >>), Pat("**/models/**/*", << >>)>>

\* UiGlobs with a row for Python
UiGlobs_WithPython(type) ==
    IF type = "Next.js" \/ type = "React"
    THEN <<Pat("**/components/**/*", <<"tsx", "jsx", "ts", "js">>)>>
    ELSE IF type = "Vue" THEN <<Pat("**/components/**/*", <<"vue">>)>>
    ELSE IF type = "Angular"
    THEN <<Pat("**/components/**/*", <<"ts">>), Pat("**/components/**/*", <<"html">>),
           Pat("**/components/**/*", <<"scss">>)>>
    ELSE IF type = "Python" THEN <<Pat("**/components/**/*", <<"py">>)>>
    ELSE <<Pat("**/components/**/*", << >>), Pat("**/ui/**/*", << >>)>>

\* the globs of ui-components-rules.mdc (no Python row)
UiGlobs(type) ==
    IF type = "Next.js" \/ type = "React"
    THEN <<Pat("**/components/**/*", <<"tsx", "jsx", "ts", "js">>)>>
    ELSE IF type = "Vue" THEN <<Pat("**/components/**/*", <<"vue">>)>>
    ELSE IF type = "Angular"
    THEN <<Pat("**/components/**/*", <<"ts">>), Pat("**/components/**/*", <<"html">>),
           Pat("**/components/**/*", <<"scss">>)>>
    ELSE <<Pat("**/components/**/*", << >>), Pat("**/ui/**/*", << >>)>>

\* RuleReferences with the four @file lines for every profile
RuleReferences_All(info) ==
    <<"auth-rules.mdc", "data-management-rules.mdc", "ui-components-rules.mdc",
      "best-practices.mdc">>

\* the '@file:' lines of the Rule References section
RuleReferences(info) ==
    PushIf(TRUE,
      PushIf(IsTruthy(info.ui),
        PushIf(IsTruthy(info.dataManagement),
          PushIf(IsTruthy(info.auth), << >>, "auth-rules.mdc"),
          "data-management-rules.mdc"),
        "ui-components-rules.mdc"),
      "best-practices.mdc")

\* `${slot ? ... : ''}`: an unset slot interpolates as the empty string
SlotText(x) == IF IsTruthy(x) THEN x ELSE ""

\* the content createProjectRule writes
ProjectRuleDoc(info) ==
    [BlankDoc EXCEPT
       !.kind = "project", !.globs = ProjectGlobs(info.type),
       !.name = info.name, !.type = info.type, !.frameworks = info.frameworks,
       !.auth = SlotText(info.auth),
       !.dataManagement = SlotText(info.dataManagement),
       !.ui = SlotText(info.ui),
       !.refs = RuleReferences(info)]

\* AuthImplementation with a fragment for Passport.js
AuthImplementation_WithPassport(auth) ==
    IF auth = "Firebase Authentication" THEN "Firebase Authentication"
    ELSE IF auth = "Clerk" THEN "Clerk Integration"
    ELSE IF auth = "Auth0" THEN "Auth0 Integration"
    ELSE IF auth = "NextAuth.js" THEN "NextAuth.js Integration"
    ELSE IF auth = "Passport.js" THEN "Passport.js Integration"
    ELSE "Authentication Implementation"

\* the implementation fragment of auth-rules.mdc
AuthImplementation(auth) ==
    IF auth = "Firebase Authentication" THEN "Firebase Authentication"
    ELSE IF auth = "Clerk" THEN "Clerk Integration"
    ELSE IF auth = "Auth0" THEN "Auth0 Integration"
    ELSE IF auth = "NextAuth.js" THEN "NextAuth.js Integration"
    ELSE "Authentication Implementation"

\* the content createAuthRule writes
AuthRuleDoc(info) ==
    [BlankDoc EXCEPT
       !.kind = "auth", !.globs = AuthGlobs(info.type), !.auth = info.auth,
       !.fragments = <<AuthImplementation(info.auth)>>]

\* the implementation fragment of data-management-rules.mdc
DataImplementation(dm) ==
    IF dm = "Firebase Firestore" THEN "Firebase Firestore"
    ELSE IF dm = "React Query" THEN "React Query Integration"
    ELSE IF dm = "Prisma" THEN "Prisma Integration"
    ELSE IF dm = "MongoDB (Mongoose)" THEN "Mongoose Integration"
    ELSE "Data Management Implementation"

\* the content createDataManagementRule writes
DataRuleDoc(info) ==
    [BlankDoc EXCEPT
       !.kind = "data", !.globs = DataGlobs(info.type),
       !.dataManagement = info.dataManagement,
       !.fragments = <<DataImplementation(info.dataManagement)>>]

\* the implementation fragment of ui-components-rules.mdc
UiImplementation(ui) ==
    IF ui = "Tailwind CSS" THEN "Tailwind CSS Usage"
    ELSE IF ui = "Material UI" THEN "Material UI Integration"
    ELSE IF ui = "Chakra UI" THEN "Chakra UI Integration"
    ELSE IF ui = "Radix UI" THEN "Radix UI Integration"
    ELSE "UI Component Implementation"

\* the content createUIComponentsRule writes
UiRuleDoc(info) ==
    [BlankDoc EXCEPT
       !.kind = "ui", !.globs = UiGlobs(info.type),
       !.ui = IF IsTruthy(info.ui) THEN info.ui ELSE "standard patterns",
       !.fragments = <<UiImplementation(info.ui)>>]

\* the practices text chosen by type
TypePractices(type) ==
    IF type = "Next.js" THEN "Next.js Best Practices, React Best Practices"
    ELSE IF type = "React" THEN "React Best Practices"
    ELSE IF type = "Vue" THEN "Vue Best Practices"
    ELSE IF type = "Angular" THEN "Angular Best Practices"
    ELSE IF type = "Python" THEN "Python Best Practices"
    ELSE "General Best Practices"

\* the content createBestPracticesRule writes when the file is absent: the
\* front matter's globs line is empty
BestPracticesDoc(info) ==
    [BlankDoc EXCEPT
       !.kind = "best",
       !.fragments =
          PushIf(info.ui = "Tailwind CSS",
            PushIf(info.auth = "Firebase Authentication",
              <<TypePractices(info.type)>>, "Firebase Best Practices"),
            "Tailwind CSS Best Practices")]

\* fs.writeFileSync(path.join(rulesDir, file), doc)
WriteRule(files, file, doc) == [f \in DOMAIN files \cup {file} |-> IF f = file THEN doc ELSE files[f]]

\* createBestPracticesRule without the existence test
createBestPracticesRule_Overwrite(info, files) ==
    WriteRule(files, "best-practices.mdc", BestPracticesDoc(info))

\* createBestPracticesRule: nothing is written when the file exists
createBestPracticesRule(info, files) ==
    IF "best-practices.mdc" \in DOMAIN files THEN files
    ELSE WriteRule(files, "best-practices.mdc", BestPracticesDoc(info))

\* the rule files generateRules writes, in the order of its calls
RulesWritten(info, files) ==
    PushIf("best-practices.mdc" \notin DOMAIN files,
      PushIf(IsTruthy(info.ui),
        PushIf(IsTruthy(info.dataManagement),
          PushIf(IsTruthy(info.auth), <<"project-rules.mdc">>, "auth-rules.mdc"),
          "data-management-rules.mdc"),
        "ui-components-rules.mdc"),
      "best-practices.mdc")

\* generateRules with the three conditional documents written for every
\* profile
generateRules_Unconditional(info, files) ==
    LET f1 == WriteRule(files, "project-rules.mdc", ProjectRuleDoc(info))
        f2 == WriteRule(f1, "auth-rules.mdc", AuthRuleDoc(info))
        f3 == WriteRule(f2, "data-management-rules.mdc", DataRuleDoc(info))
        f4 == WriteRule(f3, "ui-components-rules.mdc", UiRuleDoc(info))
    IN createBestPracticesRule(info, f4)

\* generateRules: the files of .cursor/rules after the call
generateRules(info, files) ==
    LET f1 == WriteRule(files, "project-rules.mdc", ProjectRuleDoc(info))
        f2 == IF IsTruthy(info.auth)
              THEN WriteRule(f1, "auth-rules.mdc", AuthRuleDoc(info)) ELSE f1
        f3 == IF IsTruthy(info.dataManagement)
              THEN WriteRule(f2, "data-management-rules.mdc", DataRuleDoc(info)) ELSE f2
        f4 == IF IsTruthy(info.ui)
              THEN WriteRule(f3, "ui-components-rules.mdc", UiRuleDoc(info)) ELSE f3
    IN createBestPracticesRule(info, f4)

----------------------------------------------------------------------------
(* The other steps of setupMCP. *)

\* the package npm installs, and the version range npm writes for it
ServerPkg == "@modelcontextprotocol/server-memory"
ServerRange == "^0.6.2"

\* `npm init -y`: a manifest named after the directory, with npm's default
\* test script
NpmInit ==
    [st |-> "valid", name |-> DirName, dependencies |-> EmptyObj,
     devDependencies |-> EmptyObj, workspaces |-> Undefined, scripts |-> {"test"}]

\* installMCPServer without the npm init of a directory that has no
\* package.json
installMCPServer_NoInit(p, npm) ==
    IF p.st = "absent" THEN [threw |-> npm # "ok", pkg |-> p, installed |-> npm = "ok"]
    ELSE IF npm = "installFails" \/ p.st = "invalid"
    THEN [threw |-> TRUE, pkg |-> p, installed |-> FALSE]
    ELSE [threw |-> FALSE,
          pkg |-> [p EXCEPT !.devDependencies = (ServerPkg :> ServerRange) @@ @,
                            !.scripts = @ \cup {"mcp"}],
          installed |-> TRUE]

\* installMCPServer, npm being "ok", "initFails" or "installFails":
\* [threw, pkg, installed].  npm install cannot succeed on a package.json
\* that does not parse.
installMCPServer(p, npm) ==
    LET initRuns == p.st = "absent"
        afterInit == IF initRuns /\ npm # "initFails" THEN NpmInit ELSE p
        installed == [afterInit EXCEPT
                        !.devDependencies = (ServerPkg :> ServerRange) @@ @]
    IN IF initRuns /\ npm = "initFails"
       THEN [threw |-> TRUE, pkg |-> p, installed |-> FALSE]
       ELSE IF npm = "installFails" \/ afterInit.st = "invalid"
       THEN [threw |-> TRUE, pkg |-> afterInit, installed |-> FALSE]
       ELSE [threw |-> FALSE,
             pkg |-> [installed EXCEPT !.scripts = @ \cup {"mcp"}],
             installed |-> TRUE]

\* the prefix installMCPServer puts before the message it re-throws
InstallFailed == "Failed to install MCP Memory Server"

\* fs.existsSync(path) for a path of several components
existsPath(fsn, path) == path \in DOMAIN fsn

\* the docFiles list of extractProjectContext
DocFiles ==
    <<<<"ARCHITECTURE.md">>, <<"docs", "architecture.md">>,
      <<"DESIGN.md">>, <<"docs", "design.md">>>>

\* what README.md holds, as far as the two regular expressions go
ReadmeTitle == "# title"
ReadmeDescription == "description paragraph"

\* extractProjectContext: [threw, context]; reading a README.md that is a
\* directory or is unreadable throws
extractProjectContext(fsn) ==
    LET hasReadme == existsSync(fsn, "README.md")
        readme == fsn[<<"README.md">>]
        title == hasReadme /\ ReadmeTitle \in readme.text
        described == title /\ ReadmeDescription \in readme.text
        c1 == PushIf(title, << >>, "Project title")
        c2 == PushIf(described, c1, "Project description")
        c3 == PushIf(hasReadme, c2, "README.md found in project root.")
        found == SelectSeq(DocFiles, LAMBDA d : existsPath(fsn, d))
        c4 == PushIf(found # << >>, c3, "Architecture documentation found")
        c5 == PushIf(existsSync(fsn, "CONTRIBUTING.md"), c4,
                     "Contribution guidelines found at CONTRIBUTING.md.")
    IN IF hasReadme /\ (readme.kind # "file" \/ ~readme.readable)
       THEN [threw |-> TRUE, context |-> << >>]
       ELSE [threw |-> FALSE,
             context |-> IF c5 = << >>
                         THEN <<"No detailed project documentation found.">> ELSE c5]

\* the content of the initial-setup entry
SetupContent(info) ==
    <<info.name, info.type>> \o info.frameworks
        \o <<SlotText(info.auth), SlotText(info.dataManagement), SlotText(info.ui)>>

\* createMemoryFile adding its two entries to the entries of the document
\* on disk
createMemoryFile_Append(info, ctx, t1, t2) ==
    [st |-> "valid",
     entries |-> memory.entries
        \o <<[id |-> "initial-setup", timestamp |-> t1, content |-> SetupContent(info)],
             [id |-> "project-context", timestamp |-> t2, content |-> ctx]>>]

\* createMemoryFile: the document written, t1 and t2 being the two
\* readings of new Date()
createMemoryFile(info, ctx, t1, t2) ==
    [st |-> "valid",
     entries |-> <<[id |-> "initial-setup", timestamp |-> t1, content |-> SetupContent(info)],
                   [id |-> "project-context", timestamp |-> t2, content |-> ctx]>>]

\* the two scripts createMemoryUtilities writes
UtilityScripts == {"backup-memory.js", "memory-explorer.js"}

\* the AI settings createCursorWorkspaceSettings writes, in the order of the
\* object literal
AISettings ==
    <<[key |-> "ai.autoUseContextFiles", value |-> "true"],
      [key |-> "ai.memoryManagement",
       value |-> "{enabled: true, persistMemoryBetweenSessions: true}"],
      [key |-> "ai.modelResponsiveness", value |-> "fast"],
      [key |-> "ai.codeGeneration",
       value |-> "{useCompletionForInlineCompletion: true}"]>>

\* obj[key] = value on an object kept as its list of properties: an existing
\* key keeps its place, a new key goes last
SetKey(doc, kv) ==
    IF \E i \in 1..Len(doc) : doc[i].key = kv.key
    THEN [i \in 1..Len(doc) |-> IF doc[i].key = kv.key THEN kv ELSE doc[i]]
    ELSE Append(doc, kv)

\* { ...settings, k1: v1, ... }: the properties of settings, then the
\* literal's properties assigned in order
RECURSIVE SpreadThen(_, _, _)
SpreadThen(doc, kvs, i) ==
    IF i > Len(kvs) THEN doc ELSE SpreadThen(SetKey(doc, kvs[i]), kvs, i + 1)

\* createCursorWorkspaceSettings with the spread after the literal:
\* { k1: v1, ..., ...settings }
createCursorWorkspaceSettings_ExistingWins(s) ==
    LET base == IF s.st = "valid" THEN s.doc ELSE << >>
    IN [st |-> "valid", doc |-> SpreadThen(AISettings, base, 1)]

\* createCursorWorkspaceSettings: the document written; a settings.json that
\* is absent or does not parse is started from {}
createCursorWorkspaceSettings(s) ==
    LET base == IF s.st = "valid" THEN s.doc ELSE << >>
    IN [st |-> "valid", doc |-> SpreadThen(base, AISettings, 1)]

----------------------------------------------------------------------------
(* The states a working directory starts from. *)

\* no package.json
NoManifest ==
    [st |-> "absent", name |-> Undefined, dependencies |-> EmptyObj,
     devDependencies |-> EmptyObj, workspaces |-> Undefined, scripts |-> {}]

\* a package.json that parses, with no dependencies
BareManifest == [NoManifest EXCEPT !.st = "valid", !.name = "my-app"]

\* a package.json whose text is not JSON (or that cannot be read):
\* JSON.parse(fs.readFileSync(...)) throws
BrokenManifest == [NoManifest EXCEPT !.st = "invalid"]

\* an empty, listable working directory
EmptyDir == (Cwd :> [kind |-> "dir", readable |-> TRUE, text |-> {}])

\* an empty .cursor/rules
NoFiles == [f \in {} |-> BlankDoc]

\* no .mcp/ai_memory.json
NoMemory == [st |-> "absent", entries |-> << >>]

\* no .cursor/settings.json
NoSettings == [st |-> "absent", doc |-> << >>]

\* the directories createDirectories makes
OutputDirs == {".mcp", ".mcp/backups", ".cursor", ".cursor/rules"}

\* the version strings of the model: a range, and the empty string (which
\* npm reads as "any version")
Versions == {"^1.0.0", ""}

\* the packages analyzeProject looks for, and one it does not know
TestingPkgs ==
    {"jest", "mocha", "chai", "cypress", "@testing-library/react", "@testing-library/vue"}
TypePkgs ==
    {"react", "next", "react-native", "vue", "nuxt", "angular", "svelte",
     "express", "koa", "hapi", "fastify"}
StatePkgs == {"redux", "@reduxjs/toolkit", "mobx", "zustand", "jotai", "recoil"}
AuthPkgs ==
    {"firebase", "firebase-admin", "auth0", "@clerk/nextjs", "@clerk/clerk-react",
     "next-auth", "passport", "keycloak"}
DataPkgs ==
    {"prisma", "mongoose", "sequelize", "typeorm", "@prisma/client",
     "@tanstack/react-query", "apollo", "@apollo/client", "swr"}
UiPkgs ==
    {"tailwindcss", "@mui/material", "@material-ui/core", "@chakra-ui/react",
     "bootstrap", "react-bootstrap", "styled-components", "@emotion/react",
     "@radix-ui/react-dialog", "@mantine/core", "@headlessui/react"}
Packages ==
    TestingPkgs \cup TypePkgs \cup StatePkgs \cup AuthPkgs \cup DataPkgs \cup UiPkgs
        \cup {"lodash"}

\* the top-level names the directory specification creates
EntryNames ==
    {"lerna.json", "pnpm-workspace.yaml", "requirements.txt", "Pipfile",
     "pyproject.toml", "manage.py", "django_project", "app.py", "fastapi",
     "pytest.ini", "conftest.py", "unittest", "main.py", "tsconfig.json", "src"}

\* the names created as directories
DirEntryNames == {"django_project", "fastapi", "unittest", "src"}

PlainFile == [kind |-> "file", readable |-> TRUE, text |-> {}]
PlainDir == [kind |-> "dir", readable |-> TRUE, text |-> {}]

\* what a new top-level entry may be: a .py name is a readable file holding
\* at most one of the needles, an unreadable file, or a directory
NodeChoices(name) ==
    IF name \in PyNames
    THEN {[PlainFile EXCEPT !.text = t] :
              t \in {{}, {FlaskNeedle}, {FastAPINeedle}, {UnittestNeedle}}}
         \cup {[PlainFile EXCEPT !.readable = FALSE], PlainDir}
    ELSE IF name \in DirEntryNames THEN {PlainDir}
    ELSE {PlainFile}

\* the dependency tables of the projects setup-mcp.js is run on
Stacks ==
    {EmptyObj,
     ("react" :> "^1.0.0") @@ ("next" :> "^1.0.0") @@ ("firebase" :> "^1.0.0")
        @@ ("tailwindcss" :> "^1.0.0"),
     ("vue" :> "^1.0.0") @@ ("passport" :> "^1.0.0")}

\* the manifests a run starts from
RunManifests ==
    {NoManifest, BrokenManifest} \cup {[BareManifest EXCEPT !.dependencies = s] : s \in Stacks}

\* the working directories a run starts from: no README.md, a README.md
\* with a title and a description, a README.md that cannot be read
RunDirs ==
    {EmptyDir,
     (<<"README.md">> :> [PlainFile EXCEPT !.text = {ReadmeTitle, ReadmeDescription}])
        @@ EmptyDir,
     (<<"README.md">> :> [PlainFile EXCEPT !.readable = FALSE]) @@ (<<"CONTRIBUTING.md">> :> PlainFile)
        @@ EmptyDir}

\* a memory document that does not parse
BrokenMemory == [st |-> "invalid", entries |-> << >>]

\* the settings.json files a run starts from: none, one that does not
\* parse, and the user's own with one of the AI keys set
UserSettings ==
    [st |-> "valid",
     doc |-> <<[key |-> "ai.modelResponsiveness", value |-> "slow"],
               [key |-> "editor.fontSize", value |-> "14"]>>]
RunSettings == {NoSettings, [st |-> "invalid", doc |-> << >>], UserSettings}

\* a best-practices.mdc the user wrote
UserDoc == [BlankDoc EXCEPT !.kind = "user", !.fragments = <<"our own practices">>]

\* the labels analyzeProject can give type
TypeLabels ==
    {"unknown", "Next.js", "React Native", "React", "Vue", "Angular", "Svelte",
     "Node.js", "Python"}

\* the values analyzeProject can give the three pattern slots
AuthValues ==
    {"Firebase Authentication", "Auth0", "Clerk", "NextAuth.js", "Passport.js", "Keycloak"}
DataValues ==
    {"Firebase Firestore", "Prisma", "MongoDB (Mongoose)", "SQL (Sequelize)", "TypeORM",
     "React Query", "Apollo GraphQL", "SWR"}
UiValues ==
    {"Tailwind CSS", "Material UI", "Chakra UI", "Bootstrap", "Styled Components",
     "Emotion", "Radix UI", "Mantine UI", "Headless UI"}

\* the profiles generateRules can be called with: every type with every
\* value, or none, in each slot
Profiles ==
    {[InitialInfo EXCEPT !.type = t, !.auth = a, !.dataManagement = d, !.ui = u] :
        t \in TypeLabels, a \in AuthValues \cup {Null}, d \in DataValues \cup {Null},
        u \in UiValues \cup {Null}}

\* the manifests the directory specification writes
DirManifests ==
    {NoManifest, BrokenManifest, BareManifest,
     [BareManifest EXCEPT !.workspaces = "packages/*"],
     [BareManifest EXCEPT !.dependencies = ("react" :> "^1.0.0")]}

----------------------------------------------------------------------------
(* The environment: the user's edits of the working directory before a     *)
(* call.                                                                   *)

EnvUnchanged == UNCHANGED <<cwdDepth, gitLevels, outVars, clockVars, pc, callVars, runVars>>

\* the user writes, breaks or deletes package.json
WriteManifest ==
    /\ pc = "idle"
    /\ \E p \in DirManifests : p # pkg /\ pkg' = p
    /\ UNCHANGED nodes
    /\ EnvUnchanged

\* the user creates a top-level file or directory
CreateEntry ==
    /\ pc = "idle"
    /\ Cardinality(TopLevel(nodes)) < MaxEntries
    /\ \E name \in EntryNames \ TopLevel(nodes) : \E nd \in NodeChoices(name) :
          nodes' = (<<name>> :> nd) @@ nodes
    /\ UNCHANGED pkg
    /\ EnvUnchanged

\* the user takes away the permission to list the working directory
ChmodCwd ==
    /\ pc = "idle"
    /\ nodes[Cwd].readable
    /\ nodes' = [nodes EXCEPT ![Cwd].readable = FALSE]
    /\ UNCHANGED pkg
    /\ EnvUnchanged

\* the user adds an entry to dependencies or devDependencies; the same name
\* may be in both
AddDependency ==
    /\ pc = "idle"
    /\ pkg.st = "valid"
    /\ \E name \in Packages, v \in Versions :
          /\ name \notin DOMAIN pkg.dependencies
          /\ \/ name \in DOMAIN pkg.devDependencies
             \/ Cardinality(DOMAIN pkg.dependencies \cup DOMAIN pkg.devDependencies) < MaxDeps
          /\ pkg' = [pkg EXCEPT !.dependencies = (name :> v) @@ @]
    /\ UNCHANGED nodes
    /\ EnvUnchanged

AddDevDependency ==
    /\ pc = "idle"
    /\ pkg.st = "valid"
    /\ \E name \in Packages, v \in Versions :
          /\ name \notin DOMAIN pkg.devDependencies
          /\ \/ name \in DOMAIN pkg.dependencies
             \/ Cardinality(DOMAIN pkg.dependencies \cup DOMAIN pkg.devDependencies) < MaxDeps
          /\ pkg' = [pkg EXCEPT !.devDependencies = (name :> v) @@ @]
    /\ UNCHANGED nodes
    /\ EnvUnchanged

\* the user runs `git init` in the project directory or in one of its
\* ancestors, the filesystem root included
GitInit ==
    /\ pc = "idle"
    /\ \E l \in (0..cwdDepth) \ gitLevels : gitLevels' = gitLevels \cup {l}
    /\ UNCHANGED <<pkg, nodes, cwdDepth>>
    /\ UNCHANGED <<outVars, clockVars, pc, callVars, runVars>>

\* the user moves the project directory up or down its path: its own .git
\* moves with it, the markers of the ancestors it keeps stay
MoveProject ==
    /\ pc = "idle"
    /\ \E d \in (0..MaxDepth) \ {cwdDepth} :
          /\ cwdDepth' = d
          /\ gitLevels' = {l \in gitLevels : l < d /\ l < cwdDepth}
                             \cup (IF cwdDepth \in gitLevels THEN {d} ELSE {})
    /\ UNCHANGED <<pkg, nodes>>
    /\ UNCHANGED <<outVars, clockVars, pc, callVars, runVars>>

\* the packages that push a label to frameworks
FrameworkPkgs == TypePkgs \cup StatePkgs \cup {"firebase", "firebase-admin"}

\* the user adds one of them to dependencies
AddFrameworkDependency ==
    /\ pc = "idle"
    /\ pkg.st = "valid"
    /\ Cardinality(DOMAIN pkg.dependencies) < MaxFrameworkDeps
    /\ \E name \in FrameworkPkgs \ DOMAIN pkg.dependencies, v \in Versions :
          pkg' = [pkg EXCEPT !.dependencies = (name :> v) @@ @]
    /\ UNCHANGED nodes
    /\ EnvUnchanged

\* the packages that decide the type and the three pattern slots
StackPkgs == TypePkgs \cup AuthPkgs \cup DataPkgs \cup UiPkgs

\* the user adds one of them to dependencies, with a version range
AddStackDependency ==
    /\ pc = "idle"
    /\ pkg.st = "valid"
    /\ Cardinality(DOMAIN pkg.dependencies) < MaxRenderDeps
    /\ \E name \in StackPkgs \ DOMAIN pkg.dependencies :
          pkg' = [pkg EXCEPT !.dependencies = (name :> "^1.0.0") @@ @]
    /\ UNCHANGED nodes
    /\ EnvUnchanged

----------------------------------------------------------------------------
(* A call of analyzeProject on the directory as it stands. *)

Fingerprint ==
    /\ pc = "idle"
    /\ \E listing \in Listings(nodes) :
          LET r == analyzeProject(pkg, nodes, gitLevels, cwdDepth, listing) IN
          /\ projectInfo' = r.info
          /\ outcome' = IF r.threw THEN "threw" ELSE "returned"
          /\ manifestReads' = r.reads
    /\ pc' = "analysed"
    /\ UNCHANGED <<fsVars, outVars, clockVars, runVars>>

\* generateRules is handed a profile
DrawProfile ==
    /\ pc = "idle"
    /\ projectInfo' \in Profiles
    /\ outcome' = "returned"
    /\ pc' = "analysed"
    /\ UNCHANGED <<fsVars, outVars, clockVars, manifestReads, runVars>>

\* a call of generateRules on the profile analyzeProject returned
RenderRules ==
    /\ pc = "analysed"
    /\ outcome = "returned"
    /\ rules' = generateRules(projectInfo, rules)
    /\ written' = RulesWritten(projectInfo, rules)
    /\ pc' = "rendered"
    /\ UNCHANGED <<fsVars, dirs, memory, settings, utils, cursorConfig, clockVars,
                   callVars, context, steps, caught, errorMsg, rlClosed>>

----------------------------------------------------------------------------
(* setupMCP: the ten steps in the try block, the catch and the finally. *)

\* `node setup-mcp.js`: the process starts and setupMCP is called
Start ==
    /\ pc \in {"idle", "done", "reported success", "reported error"}
    /\ runs < MaxRuns
    /\ runs' = runs + 1
    /\ now' = now + 1
    /\ startedAt' = now + 1
    /\ pc' = "install"
    /\ outcome' = "none" /\ projectInfo' = InitialInfo /\ manifestReads' = 0
    /\ context' = << >> /\ steps' = << >> /\ written' = << >>
    /\ caught' = 0 /\ errorMsg' = "" /\ rlClosed' = FALSE
    /\ UNCHANGED <<fsVars, outVars>>

\* Step 1; node_modules is created by a successful npm install
InstallMCPServer ==
    /\ pc = "install"
    /\ \E npm \in {"ok", "initFails", "installFails"} :
          LET r == installMCPServer(pkg, npm) IN
          /\ pkg' = r.pkg
          /\ nodes' = IF r.installed THEN (<<"node_modules">> :> PlainDir) @@ nodes ELSE nodes
          /\ pc' = IF r.threw THEN "catch" ELSE "analyze"
          /\ errorMsg' = IF r.threw THEN InstallFailed ELSE errorMsg
    /\ steps' = Append(steps, "installMCPServer")
    /\ UNCHANGED <<cwdDepth, gitLevels, outVars, clockVars, callVars,
                   context, written, caught, rlClosed>>

\* Step 2
AnalyzeProject ==
    /\ pc = "analyze"
    /\ \E listing \in Listings(nodes) :
          LET r == analyzeProject(pkg, nodes, gitLevels, cwdDepth, listing) IN
          /\ projectInfo' = r.info
          /\ outcome' = IF r.threw THEN "threw" ELSE "returned"
          /\ manifestReads' = r.reads
          /\ pc' = IF r.threw THEN "catch" ELSE "dirs"
          /\ errorMsg' = IF r.threw THEN "analyzeProject" ELSE errorMsg
    /\ steps' = Append(steps, "analyzeProject")
    /\ UNCHANGED <<fsVars, outVars, clockVars, context, written, caught, rlClosed>>

\* Step 3 leaving the directories to the steps that write into them
CreateDirectories_Lazy ==
    /\ pc = "dirs"
    /\ pc' = "cursor"
    /\ steps' = Append(steps, "createDirectories")
    /\ UNCHANGED <<fsVars, outVars, clockVars,
                   callVars, context, written, caught, errorMsg, rlClosed>>

\* Step 3
CreateDirectories ==
    /\ pc = "dirs"
    /\ dirs' = dirs \cup OutputDirs
    /\ pc' = "cursor"
    /\ steps' = Append(steps, "createDirectories")
    /\ UNCHANGED <<fsVars, rules, memory, settings, utils, cursorConfig, clockVars,
                   callVars, context, written, caught, errorMsg, rlClosed>>

\* Step 4 with the failed write logged inside the step and not thrown
ConfigureCursor_LogsAndGoesOn ==
    /\ pc = "cursor"
    /\ \E ok \in BOOLEAN :
          /\ cursorConfig' = IF ok THEN "written" ELSE cursorConfig
          /\ pc' = "rules"
          /\ errorMsg' = IF ok THEN errorMsg ELSE "configureCursor"
    /\ steps' = Append(steps, "configureCursor")
    /\ UNCHANGED <<fsVars, dirs, rules, memory, settings, utils, clockVars,
                   callVars, context, written, caught, rlClosed>>

\* Step 4: the write into the user's configuration directory succeeds or
\* throws (a home directory that cannot be written)
ConfigureCursor ==
    /\ pc = "cursor"
    /\ \E ok \in BOOLEAN :
          /\ cursorConfig' = IF ok THEN "written" ELSE cursorConfig
          /\ pc' = IF ok THEN "rules" ELSE "catch"
          /\ errorMsg' = IF ok THEN errorMsg ELSE "configureCursor"
    /\ steps' = Append(steps, "configureCursor")
    /\ UNCHANGED <<fsVars, dirs, rules, memory, settings, utils, clockVars,
                   callVars, context, written, caught, rlClosed>>

\* Step 5
GenerateRules ==
    /\ pc = "rules"
    /\ rules' = generateRules(projectInfo, rules)
    /\ written' = RulesWritten(projectInfo, rules)
    /\ pc' = "context"
    /\ steps' = Append(steps, "generateRules")
    /\ UNCHANGED <<fsVars, dirs, memory, settings, utils, cursorConfig, clockVars,
                   callVars, context, caught, errorMsg, rlClosed>>

\* Step 6
ExtractProjectContext ==
    /\ pc = "context"
    /\ LET r == extractProjectContext(nodes) IN
          /\ context' = r.context
          /\ pc' = IF r.threw THEN "catch" ELSE "memory"
          /\ errorMsg' = IF r.threw THEN "extractProjectContext" ELSE errorMsg
    /\ steps' = Append(steps, "extractProjectContext")
    /\ UNCHANGED <<fsVars, outVars, clockVars, callVars, written, caught, rlClosed>>

\* Step 7: the two readings of the clock are the same instant or the second
\* is later
CreateMemoryFile ==
    /\ pc = "memory"
    /\ \E d \in {0, 1} :
          /\ memory' = createMemoryFile(projectInfo, context, now, now + d)
          /\ now' = now + d
    /\ pc' = "utils"
    /\ steps' = Append(steps, "createMemoryFile")
    /\ UNCHANGED <<fsVars, dirs, rules, settings, utils, cursorConfig, startedAt, runs,
                   callVars, context, written, caught, errorMsg, rlClosed>>

\* Step 8
CreateMemoryUtilities ==
    /\ pc = "utils"
    /\ utils' = utils \cup UtilityScripts
    /\ pc' = "settings"
    /\ steps' = Append(steps, "createMemoryUtilities")
    /\ UNCHANGED <<fsVars, dirs, rules, memory, settings, cursorConfig, clockVars,
                   callVars, context, written, caught, errorMsg, rlClosed>>

\* Step 9
CreateCursorWorkspaceSettings ==
    /\ pc = "settings"
    /\ dirs' = dirs \cup {".cursor"}
    /\ settings' = createCursorWorkspaceSettings(settings)
    /\ pc' = "verify"
    /\ steps' = Append(steps, "createCursorWorkspaceSettings")
    /\ UNCHANGED <<fsVars, rules, memory, utils, cursorConfig, clockVars,
                   callVars, context, written, caught, errorMsg, rlClosed>>

\* Step 10: only reads and logs
PerformVerification ==
    /\ pc = "verify"
    /\ pc' = "finally"
    /\ steps' = Append(steps, "performVerification")
    /\ UNCHANGED <<fsVars, outVars, clockVars, callVars,
                   context, written, caught, errorMsg, rlClosed>>

\* a catch block that ends the process itself, as with process.exit(1)
CatchError_Exits ==
    /\ pc = "catch"
    /\ caught' = caught + 1
    /\ pc' = "done"
    /\ UNCHANGED <<fsVars, outVars, clockVars, callVars,
                   context, steps, written, errorMsg, rlClosed>>

\* the catch block: logs the message
CatchError ==
    /\ pc = "catch"
    /\ caught' = caught + 1
    /\ pc' = "finally"
    /\ UNCHANGED <<fsVars, outVars, clockVars, callVars,
                   context, steps, written, errorMsg, rlClosed>>

\* the finally block: rl.close(); the process then ends
Finally ==
    /\ pc = "finally"
    /\ rlClosed' = TRUE
    /\ pc' = "done"
    /\ UNCHANGED <<fsVars, outVars, clockVars, callVars,
                   context, steps, written, caught, errorMsg>>

----------------------------------------------------------------------------
(* The wrapper scripts setup-mcp.sh and setup-mcp.bat. *)

\* the exit status of `node setup-mcp.js`: 1 when an exception or a
\* rejection reaches the top level, 0 otherwise (the script neither calls
\* process.exit nor sets process.exitCode)
ExitStatus(uncaught) == IF uncaught THEN 1 ELSE 0

\* the branch of the wrapper's test of $? / %ERRORLEVEL%
WrapperBranch(status) == IF status = 0 THEN "reported success" ELSE "reported error"

\* the wrapper, after node has ended: the catch block of setupMCP ends
\* normally, so the promise of setupMCP() is never rejected
WrapperReports ==
    /\ pc = "done"
    /\ pc' = WrapperBranch(ExitStatus(FALSE))
    /\ UNCHANGED <<fsVars, outVars, clockVars, callVars, runVars>>

----------------------------------------------------------------------------
(* Between two runs: the user and the memory server change the project. *)

BetweenRuns ==
    /\ pc = "done"
    /\ UNCHANGED <<cwdDepth, gitLevels, dirs, utils, cursorConfig, clockVars, pc,
                   callVars, runVars>>

\* the user moves the project to another stack
SwitchStack ==
    /\ BetweenRuns
    /\ pkg.st = "valid"
    /\ \E s \in Stacks : s # pkg.dependencies /\ pkg' = [pkg EXCEPT !.dependencies = s]
    /\ UNCHANGED <<nodes, rules, memory, settings>>

\* the memory server appends an entry to the memory document
ServerAppendsMemory ==
    /\ BetweenRuns
    /\ memory.st = "valid"
    /\ Len(memory.entries) < MaxMemory
    /\ memory' = [memory EXCEPT
                    !.entries = Append(@, [id |-> "note", timestamp |-> now,
                                           content |-> <<"a note">>])]
    /\ UNCHANGED <<pkg, nodes, rules, settings>>

\* the user rewrites best-practices.mdc
UserEditsBestPractices ==
    /\ BetweenRuns
    /\ "best-practices.mdc" \in DOMAIN rules
    /\ rules["best-practices.mdc"] # UserDoc
    /\ rules' = WriteRule(rules, "best-practices.mdc", UserDoc)
    /\ UNCHANGED <<pkg, nodes, memory, settings>>

\* the depth of the working directory in the model
WorkDepth == 2

InitCommon ==
    /\ cwdDepth = WorkDepth
    /\ gitLevels = {}
    /\ pc = "idle"
    /\ outcome = "none"
    /\ projectInfo = InitialInfo
    /\ manifestReads = 0
    /\ now = 0
    /\ startedAt = 0
    /\ runs = 0
    /\ context = << >>
    /\ steps = << >>
    /\ written = << >>
    /\ caught = 0
    /\ errorMsg = ""
    /\ rlClosed = FALSE
    /\ utils = {}
    /\ cursorConfig = "absent"

\* analyzeProject over working directories: marker files, Python files and
\* the states of package.json
InitAnalyze ==
    /\ InitCommon /\ pkg = NoManifest /\ nodes = EmptyDir
    /\ dirs = {} /\ rules = NoFiles /\ memory = NoMemory /\ settings = NoSettings
NextAnalyze == WriteManifest \/ CreateEntry \/ ChmodCwd \/ Fingerprint
SpecAnalyze == InitAnalyze /\ [][NextAnalyze]_vars

\* analyzeProject over manifests: the dependency tables of a package.json
\* that parses
InitManifest ==
    /\ InitCommon /\ pkg = BareManifest /\ nodes = EmptyDir
    /\ dirs = OutputDirs /\ rules = NoFiles /\ memory = NoMemory /\ settings = NoSettings
NextManifest == AddDependency \/ AddDevDependency \/ Fingerprint \/ RenderRules
SpecManifest == InitManifest /\ [][NextManifest]_vars

\* analyzeProject over manifests that declare several of the packages that
\* push a label to frameworks
NextFrameworks == AddFrameworkDependency \/ Fingerprint
SpecFrameworks == InitManifest /\ [][NextFrameworks]_vars

\* analyzeProject and then generateRules over the stacks of a JavaScript
\* project and over a Python project
InitRender ==
    /\ InitCommon
    /\ \/ pkg = BareManifest /\ nodes = EmptyDir
       \/ pkg = NoManifest /\ nodes = (<<"requirements.txt">> :> PlainFile) @@ EmptyDir
    /\ dirs = OutputDirs /\ rules = NoFiles /\ memory = NoMemory /\ settings = NoSettings
NextRender == AddStackDependency \/ Fingerprint \/ RenderRules
SpecRender == InitRender /\ [][NextRender]_vars

\* generateRules as a function of the profile
NextProfiles == DrawProfile \/ RenderRules
SpecProfiles == InitManifest /\ [][NextProfiles]_vars

\* analyzeProject over the places of the project directory and of the .git
\* markers above it
NextGit == GitInit \/ MoveProject \/ WriteManifest \/ Fingerprint
SpecGit == InitAnalyze /\ [][NextGit]_vars

\* runs of setup-mcp.js on a project, one after the other
Init ==
    /\ InitCommon
    /\ pkg \in RunManifests
    /\ nodes \in RunDirs
    /\ dirs = {} /\ rules = NoFiles
    /\ memory \in {NoMemory, BrokenMemory}
    /\ settings \in RunSettings
Next ==
    \/ Start \/ InstallMCPServer \/ AnalyzeProject \/ CreateDirectories
    \/ ConfigureCursor \/ GenerateRules \/ ExtractProjectContext
    \/ CreateMemoryFile \/ CreateMemoryUtilities \/ CreateCursorWorkspaceSettings
    \/ PerformVerification \/ CatchError \/ Finally
    \/ SwitchStack \/ ServerAppendsMemory \/ UserEditsBestPractices
    \/ WrapperReports
Spec == Init /\ [][Next]_vars

\* the steps of a run: synchronous code (and an awaited call on
\* synchronous code) that the event loop runs to its end once started
RunStep ==
    \/ InstallMCPServer \/ AnalyzeProject \/ CreateDirectories
    \/ ConfigureCursor \/ GenerateRules \/ ExtractProjectContext
    \/ CreateMemoryFile \/ CreateMemoryUtilities \/ CreateCursorWorkspaceSettings
    \/ PerformVerification \/ CatchError \/ Finally

\* runs that are not suspended forever in the middle
SpecLive == Spec /\ WF_vars(RunStep)

----------------------------------------------------------------------------
(* analyzeProject over source trees: nested directories the component      *)
(* search walks.                                                           *)

\* the directories a user nests the component directories in: a plain one,
\* a hidden one and the package cache
ContainerNames == {"src", ".cache", "node_modules"}

\* the component directories a user creates in one go
TargetGroups ==
    {{"atoms"}, {"molecules", "organisms", "templates"}, {"features"}, {"pages"}}

\* the manifests of the projects with a source tree
TreeManifests ==
    {[BareManifest EXCEPT !.dependencies = ("react" :> "^1.0.0")],
     [BareManifest EXCEPT !.dependencies = ("react" :> "^1.0.0") @@ ("next" :> "^1.0.0")],
     [BareManifest EXCEPT !.dependencies = ("vue" :> "^1.0.0")]}

\* the containers of the tree and the working directory itself
Containers(fsn) == {p \in DOMAIN fsn : p = Cwd \/ p[Len(p)] \in ContainerNames}

\* the innermost container: the containers are nested in one another
Innermost(fsn) ==
    CHOOSE p \in Containers(fsn) : \A q \in Containers(fsn) : Len(q) <= Len(p)

\* the names of the entries of the tree
NamesIn(fsn) == {p[Len(p)] : p \in DOMAIN fsn \ {Cwd}}

\* mkdir of a container in the innermost one; the containers nest as deep
\* as the search goes, so a component directory can lie one level below
\* the deepest one the search lists
MkContainer ==
    /\ pc = "idle"
    /\ Len(Innermost(nodes)) < DefaultMaxDepth
    /\ \E name \in ContainerNames :
          nodes' = (Append(Innermost(nodes), name) :> PlainDir) @@ nodes
    /\ UNCHANGED pkg
    /\ EnvUnchanged

\* mkdir of a group of component directories in the working directory or
\* in a container
MkTargets ==
    /\ pc = "idle"
    /\ Cardinality({g \in TargetGroups : g \subseteq NamesIn(nodes)}) < MaxTargets
    /\ \E g \in TargetGroups, base \in Containers(nodes) :
          /\ g \cap NamesIn(nodes) = {}
          /\ nodes' = [p \in {Append(base, t) : t \in g} |-> PlainDir] @@ nodes
    /\ UNCHANGED pkg
    /\ EnvUnchanged

\* a call of analyzeProject in a directory whose package.json parses: the
\* scans over the listing of the Python branch are not reached
FingerprintTree ==
    /\ pc = "idle"
    /\ pkg.st = "valid"
    /\ LET r == analyzeProject(pkg, nodes, gitLevels, cwdDepth, << >>) IN
          /\ projectInfo' = r.info
          /\ outcome' = IF r.threw THEN "threw" ELSE "returned"
          /\ manifestReads' = r.reads
    /\ pc' = "analysed"
    /\ UNCHANGED <<fsVars, outVars, clockVars, runVars>>

InitTree ==
    /\ InitCommon /\ pkg \in TreeManifests /\ nodes = EmptyDir
    /\ dirs = {} /\ rules = NoFiles /\ memory = NoMemory /\ settings = NoSettings
NextTree == MkContainer \/ MkTargets \/ FingerprintTree
SpecTree == InitTree /\ [][NextTree]_vars

----------------------------------------------------------------------------
(* Runs of setup-mcp.js in the directory of a Python project. *)

\* directories holding Python marker files and no package.json
PythonDirs ==
    {(<<"requirements.txt">> :> PlainFile) @@ EmptyDir,
     (<<"requirements.txt">> :> PlainFile) @@ (<<"manage.py">> :> PlainFile) @@ EmptyDir,
     (<<"Pipfile">> :> PlainFile)
        @@ (<<"app.py">> :> [PlainFile EXCEPT !.text = {FlaskNeedle}]) @@ EmptyDir,
     (<<"pyproject.toml">> :> PlainFile) @@ (<<"pytest.ini">> :> PlainFile) @@ EmptyDir}

InitPython ==
    /\ InitCommon
    /\ pkg = NoManifest
    /\ nodes \in PythonDirs
    /\ dirs = {} /\ rules = NoFiles /\ memory = NoMemory /\ settings = NoSettings
NextPython == Start \/ RunStep
SpecPython == InitPython /\ [][NextPython]_vars

----------------------------------------------------------------------------
(* Vocabulary of the properties, written without the operators of the      *)
(* model.                                                                  *)

\* the names a manifest declares, in either table
Declared == DOMAIN pkg.dependencies \cup DOMAIN pkg.devDependencies

\* every declared package has a non-empty version in the merged table
NoEmptyVersion ==
    \A p \in Declared :
        IF p \in DOMAIN pkg.devDependencies
        THEN pkg.devDependencies[p] # "" ELSE pkg.dependencies[p] # ""

\* a top-level name exists in the working directory
Present(name) == <<name>> \in DOMAIN nodes

\* one of the three Python marker files exists
PythonMarked == Present("requirements.txt") \/ Present("Pipfile") \/ Present("pyproject.toml")

\* the three pattern slots are unset
SlotsUnset ==
    projectInfo.auth = Null /\ projectInfo.dataManagement = Null /\ projectInfo.ui = Null

\* the position of a label in a list, 0 when it is not in it
IndexOf(list, x) ==
    IF \E i \in 1..Len(list) : list[i] = x
    THEN CHOOSE i \in 1..Len(list) : list[i] = x /\ \A j \in 1..(i - 1) : list[j] # x
    ELSE 0

\* the provider label of an authentication package
AuthLabel(p) ==
    CASE p \in {"firebase", "firebase-admin"} -> "Firebase Authentication"
      [] p = "auth0" -> "Auth0"
      [] p \in {"@clerk/nextjs", "@clerk/clerk-react"} -> "Clerk"
      [] p = "next-auth" -> "NextAuth.js"
      [] p = "passport" -> "Passport.js"
      [] p = "keycloak" -> "Keycloak"

\* the label of a state management package
StateLabel(p) ==
    CASE p \in {"redux", "@reduxjs/toolkit"} -> "Redux"
      [] p = "mobx" -> "MobX"
      [] p = "zustand" -> "Zustand"
      [] p = "jotai" -> "Jotai"
      [] p = "recoil" -> "Recoil"

\* the frontend frameworks that head a branch of the type chain, and the
\* labels type may take in that branch
FrontendPkgs == {"react", "vue", "angular", "svelte"}
FrontendLabels(p) ==
    CASE p = "react" -> {"React", "Next.js", "React Native"}
      [] p = "vue" -> {"Vue"}
      [] p = "angular" -> {"Angular"}
      [] p = "svelte" -> {"Svelte"}

\* the file extensions of the React/Next glob set
ReactNextExts == {"ts", "tsx", "js", "jsx"}

\* the extensions the front matter of a document declares
ExtsOf(doc) ==
    UNION {{doc.globs[i].exts[j] : j \in 1..Len(doc.globs[i].exts)} :
              i \in 1..Len(doc.globs)}

\* the heading of the practices fragment of a type
TypeFragment(type) ==
    CASE type = "Next.js" -> "Next.js Best Practices, React Best Practices"
      [] type = "React" -> "React Best Practices"
      [] type = "Vue" -> "Vue Best Practices"
      [] type = "Angular" -> "Angular Best Practices"
      [] type = "Python" -> "Python Best Practices"
      [] OTHER -> "General Best Practices"

\* the fragments of a best-practices.mdc created for a profile
ExpectedPractices(info) ==
    <<TypeFragment(info.type)>>
        \o (IF info.auth = "Firebase Authentication" THEN <<"Firebase Best Practices">> ELSE << >>)
        \o (IF info.ui = "Tailwind CSS" THEN <<"Tailwind CSS Best Practices">> ELSE << >>)

\* a memory document is the seed of a run started at t0
IsSeed(m, t0) ==
    /\ m.st = "valid"
    /\ Len(m.entries) = 2
    /\ m.entries[1].id = "initial-setup"
    /\ m.entries[2].id = "project-context"
    /\ \A i \in 1..2 :
          /\ DOMAIN m.entries[i] = {"id", "timestamp", "content"}
          /\ m.entries[i].timestamp >= t0

\* the four AI keys and their fixed values
AIValue(k) ==
    CASE k = "ai.autoUseContextFiles" -> "true"
      [] k = "ai.memoryManagement" -> "{enabled: true, persistMemoryBetweenSessions: true}"
      [] k = "ai.modelResponsiveness" -> "fast"
      [] k = "ai.codeGeneration" -> "{useCompletionForInlineCompletion: true}"
AIKeys ==
    {"ai.autoUseContextFiles", "ai.memoryManagement", "ai.modelResponsiveness",
     "ai.codeGeneration"}

\* the top-level keys of a settings document; a key holds a value once
KeysOf(doc) == {doc[i].key : i \in 1..Len(doc)}
HasValue(doc, k, v) ==
    /\ Cardinality({i \in 1..Len(doc) : doc[i].key = k}) = 1
    /\ \E i \in 1..Len(doc) : doc[i].key = k /\ doc[i].value = v

----------------------------------------------------------------------------
(* Properties of analyzeProject. *)

\* C1: analyzeProject is total: on every working directory the call returns
\* a profile and never throws (a package.json that does not parse and an
\* unreadable top-level .py file included).
C1_NeverThrows == pc = "analysed" => outcome = "returned"

\* C2: with no package.json and no Python marker file the call returns,
\* type is 'unknown', frameworks is empty and the three slots are unset.
C2_NoManifestNoMarker ==
    (pc = "analysed" /\ pkg.st = "absent" /\ ~PythonMarked) =>
        /\ outcome = "returned"
        /\ projectInfo.type = "unknown"
        /\ projectInfo.frameworks = << >>
        /\ SlotsUnset

\* C2's case: a directory without manifest or marker that still holds an
\* unreadable app.py, analysed
C2_Witness ==
    /\ pc = "analysed" /\ pkg.st = "absent" /\ ~PythonMarked
    /\ Present("app.py") /\ ~nodes[<<"app.py">>].readable
    /\ projectInfo.type = "unknown"

\* C3: a manifest that declares a known authentication library and none of
\* the packages of the type chain gets that provider's label in
\* patterns.auth, and type stays 'unknown'.
C3_AuthIndependentOfType ==
    (pc = "analysed" /\ Declared \cap AuthPkgs # {} /\ Declared \cap TypePkgs = {}) =>
        /\ outcome = "returned"
        /\ projectInfo.type = "unknown"
        /\ \E a \in Declared \cap AuthPkgs : projectInfo.auth = AuthLabel(a)

\* C3 restricted to manifests without an empty version string (not the
\* claim: what is left of it once the truthiness test is set aside)
C3_WithNonEmptyVersions == NoEmptyVersion => C3_AuthIndependentOfType

\* C4: a manifest that declares a known frontend framework and a known
\* state management library gets the framework's label as type, and
\* frameworks holds the framework label before the state management label.
C4_FrameworkThenState ==
    (pc = "analysed" /\ Declared \cap FrontendPkgs # {} /\ Declared \cap StatePkgs # {}) =>
        /\ outcome = "returned"
        /\ \E f \in Declared \cap FrontendPkgs : projectInfo.type \in FrontendLabels(f)
        /\ IndexOf(projectInfo.frameworks, projectInfo.type) > 0
        /\ \A st \in Declared \cap StatePkgs :
              /\ IndexOf(projectInfo.frameworks, StateLabel(st)) > 0
              /\ IndexOf(projectInfo.frameworks, projectInfo.type)
                    < IndexOf(projectInfo.frameworks, StateLabel(st))

\* C4 restricted to manifests without an empty version string (not the claim)
C4_WithNonEmptyVersions == NoEmptyVersion => C4_FrameworkThenState

\* C5: a manifest whose dependencies include both react and next gets
\* type 'Next.js' and frameworks with 'React' before 'Next.js', and every
\* rule document rendered from that profile declares the extension set
\* ts, tsx, js, jsx in its front matter.
C5_ReactNextGlobs ==
    (pc = "rendered" /\ {"react", "next"} \subseteq DOMAIN pkg.dependencies) =>
        /\ projectInfo.type = "Next.js"
        /\ 0 < IndexOf(projectInfo.frameworks, "React")
        /\ IndexOf(projectInfo.frameworks, "React")
              < IndexOf(projectInfo.frameworks, "Next.js")
        /\ \A i \in 1..Len(written) : ExtsOf(rules[written[i]]) = ReactNextExts

\* C5 restricted to manifests without an empty version string and to the
\* documents other than best-practices.mdc (not the claim)
C5_TypedDocuments ==
    (pc = "rendered" /\ {"react", "next"} \subseteq DOMAIN pkg.dependencies
        /\ NoEmptyVersion) =>
        /\ projectInfo.type = "Next.js"
        /\ 0 < IndexOf(projectInfo.frameworks, "React")
        /\ IndexOf(projectInfo.frameworks, "React")
              < IndexOf(projectInfo.frameworks, "Next.js")
        /\ \A i \in 1..Len(written) :
              written[i] # "best-practices.mdc" =>
                  ExtsOf(rules[written[i]]) = ReactNextExts

\* the families of the type chain, in its order: the packages that select
\* the family and the labels the chain pushes for it
FamilyPkgs ==
    <<{"react"}, {"vue"}, {"angular"}, {"svelte"}, {"express", "koa", "hapi", "fastify"}>>
FamilyLabels ==
    <<{"React", "Next.js", "React Native"}, {"Vue", "Nuxt.js"}, {"Angular"}, {"Svelte"},
      {"Express", "Koa", "Hapi", "Fastify"}>>

\* the type of a manifest whose earliest declared family is the i-th
FamilyType(i) ==
    CASE i = 1 -> IF "next" \in Declared THEN "Next.js"
                  ELSE IF "react-native" \in Declared THEN "React Native" ELSE "React"
      [] i = 2 -> "Vue"
      [] i = 3 -> "Angular"
      [] i = 4 -> "Svelte"
      [] i = 5 -> "Node.js"

\* the families a manifest declares a package of
DeclaredFamilies == {i \in 1..5 : Declared \cap FamilyPkgs[i] # {}}

\* the labels of a list
LabelsOf(list) == {list[i] : i \in 1..Len(list)}

\* the labels pushed to frameworks, in the order of the rules that push them
RuleOrder ==
    <<"React", "Next.js", "React Native", "Vue", "Nuxt.js", "Angular", "Svelte",
      "Express", "Koa", "Hapi", "Fastify", "Django", "Flask", "FastAPI",
      "Redux", "MobX", "Zustand", "Jotai", "Recoil", "Firebase">>

\* the levels of the working directory and its ancestors that hold .git
MarkedLevels == gitLevels \cap (0..cwdDepth)

\* the deepest of a non-empty set of levels
Deepest(levels) == CHOOSE l \in levels : \A k \in levels : k <= l

\* a regular top-level .py file holds the Flask constructor call
FlaskFilePresent ==
    \E n \in PyNames :
        /\ Present(n) /\ nodes[<<n>>].kind = "file"
        /\ nodes[<<n>>].readable /\ FlaskNeedle \in nodes[<<n>>].text

\* C6: without package.json, with a Python marker file and a Flask entry
\* (app.py, or a top-level .py file holding 'Flask(__name__') and without a
\* Django marker, the profile has type 'Python', frameworks = ['Flask'] and
\* no slot set; and every profile of type 'Python' has the three slots unset.
C6_FlaskProject ==
    /\ (pc = "analysed" /\ pkg.st = "absent" /\ PythonMarked
            /\ (Present("app.py") \/ FlaskFilePresent)
            /\ ~Present("manage.py") /\ ~Present("django_project")) =>
          /\ outcome = "returned"
          /\ projectInfo.type = "Python"
          /\ projectInfo.frameworks = <<"Flask">>
          /\ SlotsUnset
    /\ (pc = "analysed" /\ projectInfo.type = "Python") => SlotsUnset

\* C6 restricted to the calls that return (not the claim)
C6_WhenReturned == outcome = "returned" => C6_FlaskProject

C12_NearestGitAncestor ==
    pc = "analysed" =>
        projectInfo.repoRoot =
            IF MarkedLevels = {} THEN NoRoot ELSE Deepest(MarkedLevels)

\* C12 for the projects whose only marker is not at the filesystem root
\* above them (not the claim)
C12_BelowTheRoot ==
    (cwdDepth = 0 \/ MarkedLevels # {0}) => C12_NearestGitAncestor

\* C13: type is one label of the closed set; for a manifest, the earliest
\* declared family of the order react (next, then react-native, then plain
\* React), vue, angular, svelte, server frameworks gives the type, and
\* frameworks holds no type-chain label of a later family.
C13_FirstFamilyWins ==
    (pc = "analysed" /\ outcome = "returned") =>
        /\ projectInfo.type \in TypeLabels
        /\ pkg.st = "valid" =>
              IF DeclaredFamilies = {} THEN projectInfo.type = "unknown"
              ELSE LET first == CHOOSE i \in DeclaredFamilies :
                                    \A j \in DeclaredFamilies : i <= j
                   IN /\ projectInfo.type = FamilyType(first)
                      /\ \A j \in (first + 1)..5 :
                            LabelsOf(projectInfo.frameworks) \cap FamilyLabels[j] = {}

\* C13 restricted to manifests without an empty version string (not the claim)
C13_WithNonEmptyVersions == NoEmptyVersion => C13_FirstFamilyWins

\* C14: the frameworks list returned holds no label twice, and its labels
\* are in the order of the rules that push them: type-chain labels, then
\* state management labels, then 'Firebase'.
C14_FrameworksInRuleOrder ==
    (pc = "analysed" /\ outcome = "returned") =>
        /\ \A i \in 1..Len(projectInfo.frameworks) :
              IndexOf(RuleOrder, projectInfo.frameworks[i]) > 0
        /\ \A i, j \in 1..Len(projectInfo.frameworks) :
              i < j => IndexOf(RuleOrder, projectInfo.frameworks[i])
                          < IndexOf(RuleOrder, projectInfo.frameworks[j])

\* C14's case: a manifest with a type-chain package, both Redux packages
\* and nothing else, analysed
C14_Witness ==
    /\ pc = "analysed" /\ outcome = "returned"
    /\ DOMAIN pkg.dependencies = {"vue", "redux", "@reduxjs/toolkit"}
    /\ projectInfo.frameworks = <<"Vue", "Redux">>

----------------------------------------------------------------------------
(* Properties of the files a run writes. *)

\* C8: the generateRules step leaves an existing best-practices.mdc as it
\* is, for every profile and in every run; when the file is absent the
\* step creates it with the fragment of the profile's type, then the
\* Firebase fragment iff patterns.auth is 'Firebase Authentication', then
\* the Tailwind fragment iff patterns.ui is 'Tailwind CSS'.
C8_BestPracticesKept ==
    [][(pc = "rules" /\ pc' = "context") =>
          /\ "best-practices.mdc" \in DOMAIN rules'
          /\ IF "best-practices.mdc" \in DOMAIN rules
             THEN rules'["best-practices.mdc"] = rules["best-practices.mdc"]
             ELSE /\ rules'["best-practices.mdc"].kind = "best"
                  /\ rules'["best-practices.mdc"].fragments
                        = ExpectedPractices(projectInfo)]_vars

\* C8's case: a later run has generated the rules of a profile whose type
\* is not the one the best-practices.mdc on disk was created for
C8_Witness ==
    /\ pc = "context" /\ runs >= 2
    /\ "best-practices.mdc" \in DOMAIN rules
    /\ rules["best-practices.mdc"].kind = "best"
    /\ rules["best-practices.mdc"].fragments[1] # TypeFragment(projectInfo.type)
    /\ rules["project-rules.mdc"].type = projectInfo.type

\* C9: the createMemoryFile step leaves a memory document that parses and
\* holds exactly two entries, 'initial-setup' then 'project-context', each
\* with id, timestamp and content and a timestamp at or after the start of
\* the run, whatever the document held before.
C9_MemorySeed ==
    [][(pc = "memory" /\ pc' = "utils") => IsSeed(memory', startedAt)]_vars

\* C9's case: in a second run, after the first run's seed existed (its
\* utilities were written after it), createMemoryFile has written a seed
\* whose two timestamps differ
C9_Witness ==
    /\ pc = "utils" /\ runs >= 2 /\ utils # {}
    /\ Len(memory.entries) = 2
    /\ memory.entries[1].timestamp >= startedAt
    /\ memory.entries[2].timestamp > memory.entries[1].timestamp

\* C10: the createCursorWorkspaceSettings step is a shallow merge: over a
\* settings.json that parses, every key other than the four AI keys keeps
\* its value and the four AI keys hold their fixed values; over one that
\* does not parse the document written holds exactly the four AI keys; and
\* the operation applied to its own result gives that result.
C10_ShallowMerge ==
    [][(pc = "settings" /\ pc' = "verify") =>
          /\ settings'.st = "valid"
          /\ \A k \in AIKeys : HasValue(settings'.doc, k, AIValue(k))
          /\ settings.st = "valid" =>
                \A i \in 1..Len(settings.doc) :
                    settings.doc[i].key \notin AIKeys =>
                        HasValue(settings'.doc, settings.doc[i].key, settings.doc[i].value)
          /\ settings.st = "invalid" =>
                KeysOf(settings'.doc) = AIKeys /\ Len(settings'.doc) = 4
          /\ createCursorWorkspaceSettings(settings') = settings']_vars

\* C10's case: the merge has run over the user's settings.json, which set
\* one of the AI keys and a key of its own
C10_Witness ==
    /\ pc = "verify"
    /\ HasValue(settings.doc, "editor.fontSize", "14")
    /\ HasValue(settings.doc, "ai.modelResponsiveness", "fast")
    /\ Len(settings.doc) = 5

----------------------------------------------------------------------------
(* Properties of the driver. *)

\* the ten steps of the try block, in order
TenSteps ==
    <<"installMCPServer", "analyzeProject", "createDirectories", "configureCursor",
      "generateRules", "extractProjectContext", "createMemoryFile",
      "createMemoryUtilities", "createCursorWorkspaceSettings", "performVerification">>

\* a step of the current run threw
Threw == errorMsg # ""

\* C11: in every run, when a step throws the error is caught exactly once
\* and logged, when none throws the catch block does not run, the run ends
\* only after rl.close(), and every run that started ends.
C11_CaughtOnceThenClosed ==
    /\ [](pc = "done" =>
            /\ rlClosed
            /\ caught = IF Threw THEN 1 ELSE 0
            /\ ~Threw => steps = TenSteps)
    /\ [](pc = "finally" => caught = IF Threw THEN 1 ELSE 0)
    /\ (pc = "install") ~> (pc = "done" /\ rlClosed)

\* the default implementation fragments
AuthDefault == "Authentication Implementation"
DataDefault == "Data Management Implementation"
UiDefault == "UI Component Implementation"

\* the fragments, other than the default, that the three documents can hold
AuthSpecific == {AuthImplementation(v) : v \in AuthValues} \ {AuthDefault}
DataSpecific == {DataImplementation(v) : v \in DataValues} \ {DataDefault}
UiSpecific == {UiImplementation(v) : v \in UiValues} \ {UiDefault}

\* the lookup tables: slot value -> fragment
AuthTable ==
    ("Firebase Authentication" :> "Firebase Authentication") @@ ("Clerk" :> "Clerk Integration")
        @@ ("Auth0" :> "Auth0 Integration") @@ ("NextAuth.js" :> "NextAuth.js Integration")
DataTable ==
    ("Firebase Firestore" :> "Firebase Firestore") @@ ("React Query" :> "React Query Integration")
        @@ ("Prisma" :> "Prisma Integration") @@ ("MongoDB (Mongoose)" :> "Mongoose Integration")
UiTable ==
    ("Tailwind CSS" :> "Tailwind CSS Usage") @@ ("Material UI" :> "Material UI Integration")
        @@ ("Chakra UI" :> "Chakra UI Integration") @@ ("Radix UI" :> "Radix UI Integration")

\* table lookup with a default
Lookup(table, v, default) == IF v \in DOMAIN table THEN table[v] ELSE default

\* every conditional document written by the last generateRules holds the
\* fragment its table gives for the slot's value, the default for a value
\* that is not in the table
FragmentsByTable ==
    pc = "rendered" =>
        /\ "auth-rules.mdc" \in LabelsOf(written) =>
              rules["auth-rules.mdc"].fragments
                  = <<Lookup(AuthTable, projectInfo.auth, AuthDefault)>>
        /\ "data-management-rules.mdc" \in LabelsOf(written) =>
              rules["data-management-rules.mdc"].fragments
                  = <<Lookup(DataTable, projectInfo.dataManagement, DataDefault)>>
        /\ "ui-components-rules.mdc" \in LabelsOf(written) =>
              rules["ui-components-rules.mdc"].fragments
                  = <<Lookup(UiTable, projectInfo.ui, UiDefault)>>

\* C17, amended: the fragment of each conditional rule document is chosen
\* by the slot's value through a fixed table: the auth document has 4
\* provider-specific fragments plus a default, the data-management document
\* 4 plus a default, the UI document 4 plus a default; every detectable
\* slot value that is not in the table gets the default fragment.
C17_FourFragmentsEach ==
    /\ Cardinality(AuthSpecific) = 4
    /\ Cardinality(DataSpecific) = 4
    /\ Cardinality(UiSpecific) = 4
    /\ FragmentsByTable

\* C17 as stated: 5 provider-specific fragments in the auth document.
C17_FiveAuthFragments ==
    /\ Cardinality(AuthSpecific) = 5
    /\ Cardinality(DataSpecific) = 4
    /\ Cardinality(UiSpecific) = 4
    /\ FragmentsByTable

\* C17's case: the rules of a project that uses Passport.js, a detectable
\* provider without a fragment of its own, have been rendered
C17_Witness ==
    /\ pc = "rendered"
    /\ projectInfo.auth = "Passport.js"
    /\ rules["auth-rules.mdc"].fragments = <<AuthDefault>>

\* the row of the 5-way table a type selects, and the row of a table
\* without the Python row
Row5(type) ==
    CASE type \in {"Next.js", "React"} -> "React/Next.js"
      [] type = "Vue" -> "Vue"
      [] type = "Angular" -> "Angular"
      [] type = "Python" -> "Python"
      [] OTHER -> "default"
Row4(type) == IF type = "Python" THEN "default" ELSE Row5(type)

\* a glob table has exactly the rows of Row(_): two types get the same
\* globs exactly when they select the same row
HasRows(Globs(_), Row(_)) ==
    \A t1, t2 \in TypeLabels : (Globs(t1) = Globs(t2)) <=> (Row(t1) = Row(t2))

\* every document written by the last generateRules that has a selector
\* carries the globs its table gives for the profile's type
GlobsByTable ==
    pc = "rendered" =>
        /\ rules["project-rules.mdc"].globs = ProjectGlobs(projectInfo.type)
        /\ "auth-rules.mdc" \in LabelsOf(written) =>
              rules["auth-rules.mdc"].globs = AuthGlobs(projectInfo.type)
        /\ "data-management-rules.mdc" \in LabelsOf(written) =>
              rules["data-management-rules.mdc"].globs = DataGlobs(projectInfo.type)
        /\ "ui-components-rules.mdc" \in LabelsOf(written) =>
              rules["ui-components-rules.mdc"].globs = UiGlobs(projectInfo.type)

ExpectedWritten(info, bestExists) ==
    <<"project-rules.mdc">>
        \o (IF info.auth # Null THEN <<"auth-rules.mdc">> ELSE << >>)
        \o (IF info.dataManagement # Null THEN <<"data-management-rules.mdc">> ELSE << >>)
        \o (IF info.ui # Null THEN <<"ui-components-rules.mdc">> ELSE << >>)
        \o (IF bestExists THEN << >> ELSE <<"best-practices.mdc">>)

\* the kind of document each rule file holds
KindOf(file) ==
    CASE file = "project-rules.mdc" -> "project"
      [] file = "auth-rules.mdc" -> "auth"
      [] file = "data-management-rules.mdc" -> "data"
      [] file = "ui-components-rules.mdc" -> "ui"
      [] file = "best-practices.mdc" -> "best"

\* C19: the generateRules step writes project-rules.mdc; auth-rules.mdc,
\* data-management-rules.mdc and ui-components-rules.mdc each exactly when
\* the slot is set; best-practices.mdc only when it is absent; in that
\* order; and every other file of .cursor/rules is left as it was.
C19_FilesWrittenInOrder ==
    [][(pc = "rules" /\ pc' = "context") =>
          /\ written' = ExpectedWritten(projectInfo, "best-practices.mdc" \in DOMAIN rules)
          /\ DOMAIN rules' = DOMAIN rules \cup LabelsOf(written')
          /\ \A f \in LabelsOf(written') : rules'[f].kind = KindOf(f)
          /\ \A f \in DOMAIN rules \ LabelsOf(written') : rules'[f] = rules[f]]_vars

\* C19's case: a later run has written the project and auth documents
\* only, next to the ui-components document an earlier run wrote
C19_Witness ==
    /\ pc = "context" /\ runs >= 2
    /\ written = <<"project-rules.mdc", "auth-rules.mdc">>
    /\ projectInfo.ui = Null
    /\ "ui-components-rules.mdc" \in DOMAIN rules

\* the npm scripts the completion message and the README name
AdvertisedScripts == {"mcp", "mcp:backup", "mcp:explore"}

\* C15: after a run that completed all ten steps package.json defines the
\* scripts mcp, mcp:backup and mcp:explore.
C15_AdvertisedScriptsDefined ==
    (pc = "done" /\ ~Threw) => AdvertisedScripts \subseteq pkg.scripts

\* C15 for the one script installMCPServer adds (not the claim)
C15_McpScriptDefined == (pc = "done" /\ ~Threw) => "mcp" \in pkg.scripts

\* C16: the wrapper prints the success message only after a run that
\* completed all ten steps, and prints the error message after every run in
\* which a step threw.
C16_WrapperFaithful ==
    /\ pc = "reported success" => (~Threw /\ steps = TenSteps)
    /\ (pc \in {"reported success", "reported error"} /\ Threw) =>
          pc = "reported error"

\* the places of a run after a throw
AfterThrow == {"catch", "finally", "done", "reported success", "reported error"}

\* C20: once a step has thrown no later step is entered, and what the
\* earlier steps wrote stays; a failed installMCPServer throws the message
\* 'Failed to install MCP Memory Server...' and none of the other steps
\* runs.
C20_ThrowAbortsRun ==
    /\ [](Threw =>
            /\ pc \in AfterThrow
            /\ steps = SubSeq(TenSteps, 1, Len(steps))
            /\ (steps = <<"installMCPServer">>) <=> (errorMsg = InstallFailed)
            /\ errorMsg = InstallFailed =>
                  (outcome = "none" /\ written = << >> /\ context = << >>))
    /\ [][(pc' = "catch" \/ pc \in {"catch", "finally"}) =>
              (steps' = IF pc' = "catch" THEN Append(steps, TenSteps[Len(steps) + 1])
                        ELSE steps)
              /\ outVars' = outVars]_vars
    /\ [][(pc = "install" /\ pc' = "catch") =>
              (errorMsg' = InstallFailed /\ nodes' = nodes
               /\ pkg' \in {pkg, NpmInit})]_vars

\* C20's case: a first run has ended after configureCursor threw, with the
\* directories created and no rule generated
C20_Witness ==
    /\ pc = "done" /\ runs = 1
    /\ errorMsg = "configureCursor"
    /\ steps = SubSeq(TenSteps, 1, 4)
    /\ dirs = OutputDirs /\ rules = NoFiles /\ memory.st # "valid"

\* C11's case: a run in which the sixth step threw has ended
C11_Witness ==
    /\ pc = "done" /\ rlClosed /\ caught = 1
    /\ errorMsg = "extractProjectContext"
    /\ Len(steps) = 6

\* the labels only the Python branch assigns
PythonFrameworks == {"Django", "Flask", "FastAPI"}

PythonTesting == {"pytest", "unittest"}

\* C21: whenever package.json exists, analyzeProject never sets the type
\* 'Python' and never adds Django, Flask, FastAPI, pytest or unittest,
\* whatever Python marker files are present; the type 'Python' is assigned
\* only when package.json is absent.
C21_ManifestExcludesPython ==
    pc = "analysed" =>
        /\ pkg.st # "absent" =>
              /\ projectInfo.type # "Python"
              /\ LabelsOf(projectInfo.frameworks) \cap PythonFrameworks = {}
              /\ LabelsOf(projectInfo.testing) \cap PythonTesting = {}
        /\ projectInfo.type = "Python" => pkg.st = "absent"

\* C21's case: analyzeProject has returned in a directory holding a
\* package.json that parses together with requirements.txt and manage.py
C21_Witness ==
    /\ pc = "analysed" /\ outcome = "returned"
    /\ pkg.st = "valid"
    /\ existsSync(nodes, "requirements.txt")
    /\ existsSync(nodes, "manage.py")
    /\ projectInfo.type # "Python"

\* a directory named t lies at most three levels below the working
\* directory, under no directory that is hidden or the package cache
Visible(t) ==
    \E p \in DOMAIN nodes :
        /\ Len(p) \in 1..3
        /\ p[Len(p)] = t
        /\ nodes[p].kind = "dir"
        /\ \A i \in 1..(Len(p) - 1) :
               p[i] \notin {".git", ".cache", "node_modules"}

\* C22: componentPattern is set only for the types React and Next.js, to
\* one label by first match: Atomic Design when atoms, molecules, organisms
\* and templates are all found, else Feature-based when features is found,
\* else Page-based when pages is found; a directory is found only at most
\* three levels below the working directory and never under a directory
\* that is hidden or node_modules.
C22_ComponentPatternByPriority ==
    pc = "analysed" =>
        LET cp == projectInfo.componentPattern IN
        /\ cp \in {Undefined, "Atomic Design", "Feature-based", "Page-based"}
        /\ cp # Undefined => projectInfo.type \in {"React", "Next.js"}
        /\ projectInfo.type \in {"React", "Next.js"} =>
              cp = IF \A t \in {"atoms", "molecules", "organisms", "templates"} :
                         Visible(t)
                   THEN "Atomic Design"
                   ELSE IF Visible("features") THEN "Feature-based"
                   ELSE IF Visible("pages") THEN "Page-based"
                   ELSE Undefined

\* C22's case: a React project whose four atomic directories lie within
\* reach beside a features directory, with pages four levels down and
\* nothing reported from below node_modules
C22_Witness ==
    /\ pc = "analysed" /\ projectInfo.type = "React"
    /\ projectInfo.componentPattern = "Atomic Design"
    /\ Visible("features")
    /\ <<"src", "src", "atoms">> \in DOMAIN nodes

\* C22's other cases: a features directory under node_modules and a pages
\* directory four levels down are not reported
C22_WitnessSkipped ==
    /\ pc = "analysed" /\ projectInfo.type = "Next.js"
    /\ projectInfo.componentPattern = Undefined
    /\ \/ <<"node_modules", "features">> \in DOMAIN nodes
       \/ <<"src", "src", "src", "pages">> \in DOMAIN nodes

\* the manifests that declare the same package names in the same two tables
SameNames(p) ==
    {[p EXCEPT !.dependencies = d, !.devDependencies = dd] :
        d \in [DOMAIN p.dependencies -> Versions],
        dd \in [DOMAIN p.devDependencies -> Versions]}

\* what the detection of the package.json branch assigns
Detected(info) ==
    <<info.type, info.frameworks, info.testing,
      info.auth, info.dataManagement, info.ui>>

\* C23: two manifests whose dependencies and devDependencies declare the
\* same package names yield the same type, frameworks, testing and pattern
\* slots, whatever the versions are.
C23_VersionsIrrelevant ==
    (pc = "analysed" /\ outcome = "returned") =>
        \A q \in SameNames(pkg) :
            Detected(analyzeProject(q, nodes, gitLevels, cwdDepth, << >>).info)
                = Detected(projectInfo)

\* C24: in a run of setupMCP package.json exists whenever the analysis
\* step is reached, so analyzeProject takes neither its Python branch nor
\* its no-manifest branch, and a run started in a directory holding only
\* Python marker files never yields the type 'Python'.
C24_RunAnalysesManifest ==
    /\ pc = "analyze" => pkg.st # "absent"
    /\ projectInfo.type # "Python"
    /\ "analyzeProject" \in LabelsOf(steps) =>
          /\ pkg.st # "absent"
          /\ manifestReads >= 1
          /\ LabelsOf(projectInfo.frameworks) \cap PythonFrameworks = {}
          /\ LabelsOf(projectInfo.testing) \cap PythonTesting = {}

\* C24's case: a first run in a Django directory without package.json has
\* completed its ten steps
C24_Witness ==
    /\ pc = "done" /\ runs = 1 /\ steps = TenSteps
    /\ existsSync(nodes, "requirements.txt") /\ existsSync(nodes, "manage.py")
    /\ pkg.st = "valid"
    /\ projectInfo.type = "unknown"

\* the three Firebase facts of a profile coincide
FirebaseFactsCoincide ==
    /\ (projectInfo.auth = "Firebase Authentication")
          <=> (projectInfo.dataManagement = "Firebase Firestore")
    /\ (projectInfo.auth = "Firebase Authentication")
          <=> ("Firebase" \in LabelsOf(projectInfo.frameworks))

\* C25: in every profile analyzeProject returns, patterns.auth is 'Firebase
\* Authentication' exactly when patterns.dataManagement is 'Firebase
\* Firestore' and exactly when 'Firebase' is in frameworks; a manifest that
\* declares firebase or firebase-admin gets the Firebase labels whatever
\* other authentication and data libraries it declares.
C25_FirebaseFirst ==
    (pc = "analysed" /\ outcome = "returned") =>
        /\ FirebaseFactsCoincide
        /\ Declared \cap {"firebase", "firebase-admin"} # {} =>
              /\ projectInfo.auth = "Firebase Authentication"
              /\ projectInfo.dataManagement = "Firebase Firestore"

\* C25 restricted to manifests without an empty version string (not the
\* claim)
C25_WithNonEmptyVersions == NoEmptyVersion => C25_FirebaseFirst

\* the coincidence alone, which the empty version string does not break
\* (not the claim)
C25_CoincidenceOnly ==
    (pc = "analysed" /\ outcome = "returned") => FirebaseFactsCoincide

\* the rule file of each pattern slot
SlotFiles ==
    {<<"auth", "auth-rules.mdc">>,
     <<"dataManagement", "data-management-rules.mdc">>,
     <<"ui", "ui-components-rules.mdc">>}

\* C26: once generateRules has returned, every file an @file line of
\* project-rules.mdc refers to exists in .cursor/rules: the lines for
\* auth-rules.mdc, data-management-rules.mdc and ui-components-rules.mdc are
\* there exactly when the slot of the profile is set, and then the file was
\* written by the same call; the line for best-practices.mdc is always
\* there and the file exists.
C26_ReferencesResolve ==
    "generateRules" \in LabelsOf(steps) =>
        /\ "project-rules.mdc" \in DOMAIN rules
        /\ LET refs == LabelsOf(rules["project-rules.mdc"].refs) IN
              /\ refs \subseteq DOMAIN rules
              /\ \A sf \in SlotFiles :
                    /\ sf[2] \in refs <=> projectInfo[sf[1]] # Null
                    /\ sf[2] \in refs <=> sf[2] \in LabelsOf(written)
              /\ "best-practices.mdc" \in refs
              /\ "best-practices.mdc" \in DOMAIN rules

\* C26's case: the second run of a project has generated its rules with
\* best-practices.mdc kept from the first run, an auth reference and no
\* data management reference
C26_Witness ==
    /\ runs = 2 /\ pc = "done" /\ steps = TenSteps
    /\ "best-practices.mdc" \notin LabelsOf(written)
    /\ rules["project-rules.mdc"].refs = <<"auth-rules.mdc", "best-practices.mdc">>

\* the places of a run at which a step writes into .mcp or .cursor/rules:
\* generateRules, createMemoryFile, createMemoryUtilities and
\* createCursorWorkspaceSettings are about to run
WriterPlaces == {"rules", "memory", "utils", "settings"}

\* C27: the ten steps of a run execute in one fixed order, each at most
\* once; createDirectories has completed when a step writes into .mcp or
\* .cursor/rules; analyzeProject has returned when generateRules and
\* createMemoryFile read the profile, and the profile does not change after
\* it was returned; performVerification is the last step and writes
\* nothing.
C27_FixedStepOrder ==
    /\ [](steps = SubSeq(TenSteps, 1, Len(steps)))
    /\ [][steps' # steps =>
              (steps' = << >> \/ steps' = Append(steps, TenSteps[Len(steps) + 1]))]_vars
    /\ [](pc \in WriterPlaces =>
              ("createDirectories" \in LabelsOf(steps) /\ OutputDirs \subseteq dirs))
    /\ [](pc \in {"rules", "memory"} =>
              ("analyzeProject" \in LabelsOf(steps) /\ outcome = "returned"))
    /\ [][("analyzeProject" \in LabelsOf(steps) /\ pc' # "install") =>
              projectInfo' = projectInfo]_vars
    /\ [][pc = "verify" =>
              (steps' = TenSteps /\ pc' = "finally"
               /\ fsVars' = fsVars /\ outVars' = outVars)]_vars
    /\ []("performVerification" \in LabelsOf(steps) =>
              pc \in {"finally", "done", "reported success", "reported error"})

\* C27's case: performVerification has just ended a first run whose nine
\* earlier steps created the directories, the rules, the memory file, the
\* utilities and the settings
C27_Witness ==
    /\ pc = "finally" /\ runs = 1 /\ steps = TenSteps
    /\ outcome = "returned" /\ dirs = OutputDirs
    /\ "project-rules.mdc" \in DOMAIN rules
    /\ memory.st = "valid" /\ settings.st = "valid"

====
